---- MODULE Spec2Model ----
(***************************************************************************)
(* Model of the lockfile-to-graph parser of dependency-visualizer          *)
(* (src/src/lib/utils/lockfileParser.ts, the revision at lines 269-605).   *)
(*                                                                         *)
(* Strings are sequences of one-character strings, so that the string      *)
(* operations of the code (split, indexOf, substring, trim, template       *)
(* concatenation) are computed as the code computes them.  Error messages  *)
(* are sequences whose fixed parts are single multi-character elements.    *)
(* A JavaScript Map is a sequence of [key, value] records in insertion     *)
(* order; an array is a sequence.  An absent (undefined) string or object  *)
(* is the empty sequence: the code only tests these values for truthiness  *)
(* (`x || default`, `if (x)`, Object.keys(x).length), which treats the     *)
(* absent value and the empty one alike.                                   *)
(***************************************************************************)
EXTENDS Integers, Sequences, FiniteSets, TLC

VARIABLES content, lockfileType, pc, returned, thrown,
          graphData, controls, graph, dragging,
          lockfileContent, errorMsg, isLoading, githubRepoUrl, selectedLockfile,
          loadingSource, pending, showTableView

\* The state of the page but for its graph: the $state variables of
\* +page.svelte (selectedLockfile is its `lockfileType`, the value of the
\* select) and the load in flight.
pageVars == <<lockfileContent, errorMsg, isLoading, githubRepoUrl, selectedLockfile,
             loadingSource, pending, showTableView>>

\* The state of the page and of the components that show its graph.
viewVars == <<graphData, controls, graph, dragging, pageVars>>

vars == <<content, lockfileType, pc, returned, thrown, viewVars>>

----------------------------------------------------------------------------
(* String primitives of the JavaScript runtime, as the parser uses them.   *)

MinOf(S) == CHOOSE x \in S : \A y \in S : x <= y

MaxOf(S) == CHOOSE x \in S : \A y \in S : x >= y

\* s.indexOf(p): 0-based index of the first occurrence of p, or -1.
IndexOf(s, p) ==
  LET hits == {i \in 1..(Len(s) - Len(p) + 1) : SubSeq(s, i, i + Len(p) - 1) = p}
  IN IF hits = {} THEN -1 ELSE MinOf(hits) - 1

\* s.includes(p)
Includes(s, p) == IndexOf(s, p) # -1

\* s.startsWith(p)
StartsWith(s, p) == Len(s) >= Len(p) /\ SubSeq(s, 1, Len(p)) = p

\* s.endsWith(p)
EndsWith(s, p) == Len(s) >= Len(p) /\ SubSeq(s, Len(s) - Len(p) + 1, Len(s)) = p

Clamp(i, n) == IF i < 0 THEN 0 ELSE IF i > n THEN n ELSE i

\* s.substring(a, b): both indices clamped to [0, length], swapped if a > b.
Substring(s, a, b) ==
  LET ca == Clamp(a, Len(s))
      cb == Clamp(b, Len(s))
      lo == IF ca <= cb THEN ca ELSE cb
      hi == IF ca <= cb THEN cb ELSE ca
  IN SubSeq(s, lo + 1, hi)

\* s.substring(a)
SubstringFrom(s, a) == Substring(s, a, Len(s))

\* The characters trim() strips: the WhiteSpace and LineTerminator code
\* points of ECMAScript.  A character that has no literal of its own is
\* written as the one-element string of its escape.
WhiteSpace ==
  {" ", "\n", "\t", "\r", "\f", "\\v", "\\u00a0", "\\ufeff", "\\u2028", "\\u2029",
   "\\u1680", "\\u2000", "\\u2001", "\\u2002", "\\u2003", "\\u2004", "\\u2005",
   "\\u2006", "\\u2007", "\\u2008", "\\u2009", "\\u200a", "\\u202f", "\\u205f",
   "\\u3000"}

\* s.trim()
Trim(s) ==
  LET keep == {i \in 1..Len(s) : s[i] \notin WhiteSpace}
  IN IF keep = {} THEN <<>> ELSE SubSeq(s, MinOf(keep), MaxOf(keep))

\* s.replace(/"/g, '')
RemoveQuotes(s) == SelectSeq(s, LAMBDA c : c # "\"")

\* s.split(sep) for a non-empty separator: the pieces between successive,
\* non-overlapping occurrences of sep found left to right.
RECURSIVE Split(_, _)
Split(s, sep) ==
  LET i == IndexOf(s, sep)
  IN IF i = -1
     THEN <<s>>
     ELSE <<SubSeq(s, 1, i)>> \o Split(SubSeq(s, i + Len(sep) + 1, Len(s)), sep)

\* A template that leaves the separator out.
MakeIdNoSeparator(name, version) == name \o version

\* The template literal `${name}@${version}`.
MakeId(name, version) == name \o <<"@">> \o version

----------------------------------------------------------------------------
(* Map<K, V>: a sequence of [key, value] records in insertion order.       *)

MapHas(m, k) == \E i \in 1..Len(m) : m[i].key = k

MapGet(m, k) == m[CHOOSE i \in 1..Len(m) : m[i].key = k].value

\* m.set(k, v): replaces the value of an existing key in place, otherwise
\* appends the entry.
MapSet(m, k, v) ==
  IF MapHas(m, k)
  THEN [i \in 1..Len(m) |-> IF m[i].key = k THEN [key |-> k, value |-> v] ELSE m[i]]
  ELSE Append(m, [key |-> k, value |-> v])

\* Array.from(m.values())
MapValues(m) == [i \in 1..Len(m) |-> m[i].value]

----------------------------------------------------------------------------
(* Literals of the parser.                                                 *)

RootDefaultName == <<"r", "o", "o", "t">>

RootDefaultVersion == <<"0", ".", "0", ".", "0">>

UnknownVersion == <<"u", "n", "k", "n", "o", "w", "n">>

YarnRootName == <<"r", "o", "o", "t">>

YarnRootVersion == <<"1", ".", "0", ".", "0">>

YarnRootId == <<"r", "o", "o", "t", "@", "1", ".", "0", ".", "0">>

VersionPrefix == <<"v", "e", "r", "s", "i", "o", "n", " ">>

DependenciesHeader == <<"d", "e", "p", "e", "n", "d", "e", "n", "c", "i", "e", "s", ":">>

PackageLockSelector == <<"p", "a", "c", "k", "a", "g", "e", "-", "l", "o", "c", "k">>

YarnSelector == <<"y", "a", "r", "n">>

NoDepsPackageLockMsg == <<"No dependencies found in the package-lock.json file.">>

NoDepsYarnMsg == <<"No dependencies found in the yarn.lock file.">>

\* `Lockfile type '${lockfileType}' not supported yet`
UnsupportedMsg(type) == <<"Lockfile type '">> \o type \o <<"' not supported yet">>

\* A catch that drops the message of the error it caught.
WrapMsgWithoutCause(message) == <<"Failed to parse lockfile">>

\* `Failed to parse lockfile: ${error.message}`
WrapMsg(message) == <<"Failed to parse lockfile: ">> \o message

\* Messages of the errors the runtime raises: JSON.parse on a text that is
\* not JSON, and a property read on null.
\* The characters JSON.parse skips between tokens.
JsonWhiteSpace == {" ", "\n", "\t", "\r"}

\* The number of characters of context that the message of JSON.parse
\* quotes on each side of the token it rejects, and the length from which
\* it quotes a part of the text only.
MaxContextCharacters == 10

MinLengthForContext == 2 * MaxContextCharacters + 1

\* "${part}" in a message.
Quoted(part) == <<"\"">> \o part \o <<"\"">>

\* The texts whose message names the text alone.
SpecialTexts ==
  {<<"N", "a", "N">>,
   <<"u", "n", "d", "e", "f", "i", "n", "e", "d">>,
   <<"I", "n", "f", "i", "n", "i", "t", "y">>}

\* error.message of the SyntaxError of JSON.parse(text), for a text with
\* nothing but blanks or one whose first other character begins no JSON
\* value (a letter of a package name, "#"): the character and the text, or
\* for a long text the part of it around the character.
SyntaxErrorMsg(text) ==
  LET rest == {i \in 1..Len(text) : text[i] \notin JsonWhiteSpace}
      pos == MinOf(rest) - 1
      token == <<"Unexpected token '", text[pos + 1], "', ">>
  IN IF rest = {}
     THEN <<"Unexpected end of JSON input">>
     ELSE IF text \in SpecialTexts
     THEN Quoted(text) \o <<" is not valid JSON">>
     ELSE IF Len(text) < MinLengthForContext
     THEN token \o Quoted(text) \o <<" is not valid JSON">>
     ELSE IF pos < MaxContextCharacters
     THEN token \o Quoted(SubSeq(text, 1, pos + MaxContextCharacters))
          \o <<"... is not valid JSON">>
     ELSE IF pos < Len(text) - MaxContextCharacters
     THEN token \o <<"...">>
          \o Quoted(SubSeq(text, pos - MaxContextCharacters + 1, pos + MaxContextCharacters))
          \o <<"... is not valid JSON">>
     ELSE token \o <<"...">>
          \o Quoted(SubSeq(text, pos - MaxContextCharacters + 1, Len(text)))
          \o <<" is not valid JSON">>

\* error.message of the TypeError of `packageLock.name` on null.
TypeErrorMsg == <<"Cannot read properties of null (reading 'name')">>

----------------------------------------------------------------------------
(* Results of a parser: a graph, or a thrown error.                        *)

Graph(nodes, links) == [threw |-> FALSE, message |-> <<>>, nodes |-> nodes, links |-> links]

Throw(message) == [threw |-> TRUE, message |-> message, nodes |-> <<>>, links |-> <<>>]

NewNode(name, version, type) ==
  [id |-> MakeId(name, version), name |-> name, version |-> version,
   type |-> type, hasMultipleVersions |-> FALSE]

NewLink(source, target, type) == [source |-> source, target |-> target, type |-> type]

\* A parser that collects nodes in an array, without the lookup by id.
AddNodeAlways(nodesMap, node) == Append(nodesMap, [key |-> node.id, value |-> node])

\* if (!nodesMap.has(nodeId)) nodesMap.set(nodeId, node)
AddNodeIfAbsent(nodesMap, node) ==
  IF MapHas(nodesMap, node.id) THEN nodesMap ELSE MapSet(nodesMap, node.id, node)

\* dev > peer > optional > prod
DependencyType(isDev, isPeer, isOptional) ==
  IF isDev THEN "dev" ELSE IF isPeer THEN "peer" ELSE IF isOptional THEN "optional" ELSE "prod"

\* packageVersions: Map<string, Set<string>>
TrackVersion(packageVersions, name, version) ==
  IF ~MapHas(packageVersions, name)
  THEN MapSet(packageVersions, name, {version})
  ELSE MapSet(packageVersions, name, MapGet(packageVersions, name) \cup {version})

\* details.version || 'unknown'
VersionOrUnknown(version) == IF version = <<>> THEN UnknownVersion ELSE version

\* A parser that returns the links unfiltered.
ValidLinksUnfiltered(nodes, links) == links

\* A filter that tests the source of a link and not its target.
ValidLinksSourceOnly(nodes, links) ==
  LET nodeIds == {nodes[i].id : i \in 1..Len(nodes)}
  IN SelectSeq(links, LAMBDA l : l.source \in nodeIds)

\* links.filter(link => nodeIds.has(link.source) && nodeIds.has(link.target))
ValidLinks(nodes, links) ==
  LET nodeIds == {nodes[i].id : i \in 1..Len(nodes)}
  IN SelectSeq(links, LAMBDA l : l.source \in nodeIds /\ l.target \in nodeIds)

----------------------------------------------------------------------------
(* processDependenciesOldFormat: the legacy nested `dependencies` tree.    *)
(* st is the record of the three accumulators the code threads through     *)
(* the recursion: nodesMap, links, packageVersions.                        *)

\* A walker that ignores the flag handed down by the ancestors.
CurrentIsDevOwnOnly(isDev, details) == details.dev

\* const currentIsDev = isDev || details.dev === true
CurrentIsDev(isDev, details) == isDev \/ details.dev

\* A walker that links every entry of the tree to the node it was first
\* called with, whatever the depth of the entry.
RECURSIVE ProcessDependenciesFromRoot(_, _, _, _)
ProcessDependenciesFromRoot(dependencies, parentId, st, isDev) ==
  IF dependencies = <<>>
  THEN st
  ELSE LET details == Head(dependencies)
           name == details.name
           version == VersionOrUnknown(details.version)
           nodeId == MakeId(name, version)
           currentIsDev == CurrentIsDev(isDev, details)
           type == DependencyType(currentIsDev, details.peer, details.optional)
           st1 == [nodesMap |-> AddNodeIfAbsent(st.nodesMap, NewNode(name, version, type)),
                   links |-> Append(st.links, NewLink(parentId, nodeId, type)),
                   packageVersions |-> TrackVersion(st.packageVersions, name, version)]
           st2 == IF details.dependencies # <<>>
                  THEN ProcessDependenciesFromRoot(details.dependencies, parentId, st1, currentIsDev)
                  ELSE st1
       IN ProcessDependenciesFromRoot(Tail(dependencies), parentId, st2, isDev)

RECURSIVE ProcessDependenciesOldFormat(_, _, _, _)
ProcessDependenciesOldFormat(dependencies, parentId, st, isDev) ==
  IF dependencies = <<>>
  THEN st
  ELSE LET details == Head(dependencies)
           name == details.name
           version == VersionOrUnknown(details.version)
           nodeId == MakeId(name, version)
           currentIsDev == CurrentIsDev(isDev, details)
           type == DependencyType(currentIsDev, details.peer, details.optional)
           st1 == [nodesMap |-> AddNodeIfAbsent(st.nodesMap, NewNode(name, version, type)),
                   links |-> Append(st.links, NewLink(parentId, nodeId, type)),
                   packageVersions |-> TrackVersion(st.packageVersions, name, version)]
           st2 == IF details.dependencies # <<>>
                  THEN ProcessDependenciesOldFormat(details.dependencies, nodeId, st1, currentIsDev)
                  ELSE st1
       IN ProcessDependenciesOldFormat(Tail(dependencies), parentId, st2, isDev)

----------------------------------------------------------------------------
(* The modern flat `packages` table.                                       *)

\* Declared links that are all of kind prod, whatever the entry.
DeclaredLinksProd(pkgDeps, nodeId, type) ==
  [k \in 1..Len(pkgDeps) |->
     NewLink(nodeId, MakeId(pkgDeps[k].name, pkgDeps[k].version), "prod")]

\* Object.keys(pkgDeps).forEach(depName => links.push({source: nodeId, target: `${depName}@${pkgDeps[depName]}`, type}))
RECURSIVE DeclaredLinks(_, _, _)
DeclaredLinks(pkgDeps, nodeId, type) ==
  IF pkgDeps = <<>>
  THEN <<>>
  ELSE <<NewLink(nodeId, MakeId(Head(pkgDeps).name, Head(pkgDeps).version), type)>>
       \o DeclaredLinks(Tail(pkgDeps), nodeId, type)

\* A table loop in which an entry nested under the path of a dev entry
\* is dev as well, as in the walk of the legacy tree.
ProcessPackageEntryInheritingDev(st, rootId, entry) ==
  IF entry.path = <<>>
  THEN st
  ELSE LET parts == Split(entry.path, <<"/">>)
           name == parts[Len(parts)]
           version == VersionOrUnknown(entry.version)
           nodeId == MakeId(name, version)
           parentIsDev == /\ Len(parts) > 2
                          /\ \E k \in 1..Len(st.nodesMap) :
                               /\ st.nodesMap[k].value.name = parts[Len(parts) - 2]
                               /\ st.nodesMap[k].value.type = "dev"
           type == DependencyType(entry.dev \/ parentIsDev, entry.peer, entry.optional)
           declared == DeclaredLinks(entry.dependencies, nodeId, type)
           rootLink == IF Len(parts) = 2 THEN <<NewLink(rootId, nodeId, type)>> ELSE <<>>
       IN [nodesMap |-> AddNodeIfAbsent(st.nodesMap, NewNode(name, version, type)),
           links |-> st.links \o declared \o rootLink,
           packageVersions |-> TrackVersion(st.packageVersions, name, version)]

\* A table loop that drops a declared link at once when its target is not
\* yet a node.
ProcessPackageEntryKnownTargets(st, rootId, entry) ==
  IF entry.path = <<>>
  THEN st
  ELSE LET parts == Split(entry.path, <<"/">>)
           name == parts[Len(parts)]
           version == VersionOrUnknown(entry.version)
           nodeId == MakeId(name, version)
           type == DependencyType(entry.dev, entry.peer, entry.optional)
           declared == SelectSeq(DeclaredLinks(entry.dependencies, nodeId, type),
                                 LAMBDA l : \E k \in 1..Len(st.nodesMap) :
                                              st.nodesMap[k].key = l.target)
           rootLink == IF Len(parts) = 2 THEN <<NewLink(rootId, nodeId, type)>> ELSE <<>>
       IN [nodesMap |-> AddNodeIfAbsent(st.nodesMap, NewNode(name, version, type)),
           links |-> st.links \o declared \o rootLink,
           packageVersions |-> TrackVersion(st.packageVersions, name, version)]

\* A table loop that keeps the scope in the name of a scoped package.
ProcessPackageEntryScopedName(st, rootId, entry) ==
  IF entry.path = <<>>
  THEN st
  ELSE LET parts == Split(entry.path, <<"/">>)
           scoped == Len(parts) > 2 /\ StartsWith(parts[Len(parts) - 1], <<"@">>)
           name == IF scoped
                   THEN parts[Len(parts) - 1] \o <<"/">> \o parts[Len(parts)]
                   ELSE parts[Len(parts)]
           version == VersionOrUnknown(entry.version)
           nodeId == MakeId(name, version)
           type == DependencyType(entry.dev, entry.peer, entry.optional)
           declared == DeclaredLinks(entry.dependencies, nodeId, type)
           rootLink == IF Len(parts) = 2 THEN <<NewLink(rootId, nodeId, type)>> ELSE <<>>
       IN [nodesMap |-> AddNodeIfAbsent(st.nodesMap, NewNode(name, version, type)),
           links |-> st.links \o declared \o rootLink,
           packageVersions |-> TrackVersion(st.packageVersions, name, version)]

\* The body of Object.entries(packages).forEach(([pkgPath, details]) => ...)
ProcessPackageEntry(st, rootId, entry) ==
  IF entry.path = <<>>
  THEN st
  ELSE LET parts == Split(entry.path, <<"/">>)
           name == parts[Len(parts)]
           version == VersionOrUnknown(entry.version)
           nodeId == MakeId(name, version)
           type == DependencyType(entry.dev, entry.peer, entry.optional)
           declared == DeclaredLinks(entry.dependencies, nodeId, type)
           rootLink == IF Len(parts) = 2 THEN <<NewLink(rootId, nodeId, type)>> ELSE <<>>
       IN [nodesMap |-> AddNodeIfAbsent(st.nodesMap, NewNode(name, version, type)),
           links |-> st.links \o declared \o rootLink,
           packageVersions |-> TrackVersion(st.packageVersions, name, version)]

RECURSIVE ProcessPackages(_, _, _)
ProcessPackages(packages, rootId, st) ==
  IF packages = <<>>
  THEN st
  ELSE ProcessPackages(Tail(packages), rootId, ProcessPackageEntry(st, rootId, Head(packages)))

\* packageVersions.forEach: every node whose name has more than one tracked
\* version gets hasMultipleVersions = true.
MarkMultipleVersions(nodesMap, packageVersions) ==
  LET conflicting == {packageVersions[i].key : i \in
                        {j \in 1..Len(packageVersions) : Cardinality(packageVersions[j].value) > 1}}
  IN [i \in 1..Len(nodesMap) |->
        IF nodesMap[i].value.name \in conflicting
        THEN [key |-> nodesMap[i].key,
              value |-> [nodesMap[i].value EXCEPT !.hasMultipleVersions = TRUE]]
        ELSE nodesMap[i]]

\* JSON.parse(content): the parsed value of a JSON text, a SyntaxError for
\* any other text.
JSONParse(c) ==
  IF c.kind = "text" THEN Throw(SyntaxErrorMsg(c.text)) ELSE [threw |-> FALSE, value |-> c]

\* packageLock.name || 'root'
RootNameOf(packageLock) ==
  IF packageLock.name = <<>> THEN RootDefaultName ELSE packageLock.name

\* A root version that falls back to the default of the dependencies.
RootVersionOrUnknown(packageLock) == VersionOrUnknown(packageLock.version)

\* packageLock.version || '0.0.0'
RootVersionOf(packageLock) ==
  IF packageLock.version = <<>> THEN RootDefaultVersion ELSE packageLock.version

\* if (nodes.length === 0)
PackageLockHasNoDependencies(nodes) == Len(nodes) = 0

ParsePackageLock(c) ==
  IF c.kind = "text" THEN JSONParse(c)
  ELSE IF c.kind = "null" THEN Throw(TypeErrorMsg)
  ELSE
    LET packageLock == c.json
        rootName == RootNameOf(packageLock)
        rootVersion == RootVersionOf(packageLock)
        rootId == MakeId(rootName, rootVersion)
        st0 == [nodesMap |-> MapSet(<<>>, rootId, NewNode(rootName, rootVersion, "prod")),
                links |-> <<>>,
                packageVersions |-> <<>>]
        st1 == IF Len(packageLock.dependencies) > 0
               THEN ProcessDependenciesOldFormat(packageLock.dependencies, rootId, st0, FALSE)
               ELSE st0
        st2 == IF Len(packageLock.packages) > 0
               THEN ProcessPackages(packageLock.packages, rootId, st1)
               ELSE st1
        nodes == MapValues(MarkMultipleVersions(st2.nodesMap, st2.packageVersions))
        validLinks == ValidLinks(nodes, st2.links)
    IN IF PackageLockHasNoDependencies(nodes)
       THEN Throw(NoDepsPackageLockMsg)
       ELSE Graph(nodes, validLinks)

----------------------------------------------------------------------------
(* parseYarnLock: the block-structured text format.                        *)

Quote == "\""

\* line.match(/([^"]+) "([^"]+)"/): the leftmost match.  Group 1 cannot
\* hold a quote and is followed by a space and a quote, so a match starting
\* at s ends group 1 two characters before the first quote after s; group 2
\* needs one character that is not a quote and a closing quote after it.
MatchStarts(line) ==
  {s \in 1..Len(line) :
     /\ line[s] # Quote
     /\ \E q \in (s + 2)..Len(line) :
          /\ line[q] = Quote
          /\ \A k \in s..(q - 1) : line[k] # Quote
          /\ line[q - 1] = " "
          /\ q + 1 <= Len(line)
          /\ line[q + 1] # Quote
          /\ \E q2 \in (q + 2)..Len(line) : line[q2] = Quote}

\* depMatch[1] of the leftmost match (the empty sequence when depMatch is null).
DepMatchName(line) ==
  IF MatchStarts(line) = {}
  THEN <<>>
  ELSE LET s == MinOf(MatchStarts(line))
           q == MinOf({k \in (s + 2)..Len(line) : line[k] = Quote})
       IN SubSeq(line, s, q - 2)

\* A version search that falls back to the unknown version of the JSON
\* parser when the block has no `version ` line.
FindVersionOrUnknown(lines) ==
  LET hits == {i \in 2..Len(lines) : StartsWith(Trim(lines[i]), VersionPrefix)}
  IN IF hits = {}
     THEN UnknownVersion
     ELSE Trim(RemoveQuotes(SubstringFrom(Trim(lines[MinOf(hits)]), 9)))

\* The first `version ` line after the block's first line:
\* line.substring(9).replace(/"/g, '').trim(), or '' when there is none.
FindVersion(lines) ==
  LET hits == {i \in 2..Len(lines) : StartsWith(Trim(lines[i]), VersionPrefix)}
  IN IF hits = {}
     THEN <<>>
     ELSE Trim(RemoveQuotes(SubstringFrom(Trim(lines[MinOf(hits)]), 9)))

\* A lookup that lists the nodes of a name from the latest to the earliest.
NodesNamedLatestFirst(nodesMap, depName) ==
  LET named == SelectSeq(MapValues(nodesMap), LAMBDA n : n.name = depName)
  IN [k \in 1..Len(named) |-> named[Len(named) + 1 - k]]

\* Array.from(nodesMap.values()).filter(n => n.name === depName)
NodesNamed(nodesMap, depName) == SelectSeq(MapValues(nodesMap), LAMBDA n : n.name = depName)

\* The loop over lines[1..] that reads the `dependencies:` section of a
\* block; i is the 1-based position of the line, inDepsSection the flag.
RECURSIVE DependencyLinks(_, _, _, _, _)
DependencyLinks(lines, i, inDepsSection, nodesMap, nodeId) ==
  IF i > Len(lines)
  THEN <<>>
  ELSE LET line == Trim(lines[i])
       IN IF line = DependenciesHeader
          THEN DependencyLinks(lines, i + 1, TRUE, nodesMap, nodeId)
          ELSE IF inDepsSection /\ line # <<>>
          THEN LET matched == MatchStarts(line) # {}
                   depNodes == NodesNamed(nodesMap, Trim(DepMatchName(line)))
                   added == IF matched /\ Len(depNodes) > 0
                            THEN <<NewLink(nodeId, depNodes[1].id, "undefined")>>
                            ELSE <<>>
               IN added \o DependencyLinks(lines, i + 1, inDepsSection, nodesMap, nodeId)
          ELSE DependencyLinks(lines, i + 1,
                               IF inDepsSection /\ line = <<>> THEN FALSE ELSE inDepsSection,
                               nodesMap, nodeId)

\* The body of packageBlocks.forEach(block => ...); st holds nodesMap and links.
ProcessYarnBlock(st, block) ==
  IF Trim(block) = <<>>
  THEN st
  ELSE LET lines == Split(block, <<"\n">>)
       IN IF ~(lines[1] # <<>> /\ Includes(lines[1], <<":">>))
          THEN st
          ELSE LET packageLine == Trim(lines[1])
                   currentPackage == Substring(packageLine, 0, IndexOf(packageLine, <<"@">>))
                   currentVersion == FindVersion(lines)
                   nodeId == MakeId(currentPackage, currentVersion)
                   nodesMap1 == AddNodeIfAbsent(st.nodesMap,
                                  NewNode(currentPackage, currentVersion, "undefined"))
               IN IF currentPackage # <<>> /\ currentVersion # <<>>
                  THEN [nodesMap |-> nodesMap1,
                        links |-> Append(st.links, NewLink(YarnRootId, nodeId, "undefined"))
                                  \o DependencyLinks(lines, 2, FALSE, nodesMap1, nodeId)]
                  ELSE st

RECURSIVE ProcessYarnBlocks(_, _)
ProcessYarnBlocks(packageBlocks, st) ==
  IF packageBlocks = <<>>
  THEN st
  ELSE ProcessYarnBlocks(Tail(packageBlocks), ProcessYarnBlock(st, Head(packageBlocks)))

\* The node map and the link list before the first block: the pseudo-root.
YarnInitialState ==
  [nodesMap |-> MapSet(<<>>, YarnRootId,
                  [id |-> YarnRootId, name |-> YarnRootName,
                   version |-> YarnRootVersion, type |-> "undefined",
                   hasMultipleVersions |-> FALSE]),
   links |-> <<>>]

\* The emptiness test of the JSON parser, which the root node always passes.
YarnHasNoNodes(nodes) == Len(nodes) = 0

\* if (nodes.length <= 1)
YarnHasNoDependencies(nodes) == Len(nodes) <= 1

ParseYarnLock(c) ==
  LET st1 == ProcessYarnBlocks(Split(c.text, <<"\n", "\n">>), YarnInitialState)
      nodes == MapValues(st1.nodesMap)
      validLinks == ValidLinks(nodes, st1.links)
  IN IF YarnHasNoDependencies(nodes)
     THEN Throw(NoDepsYarnMsg)
     ELSE Graph(nodes, validLinks)

----------------------------------------------------------------------------
(* parseLockfile: the dispatch on the selector and the catch that wraps    *)
(* every error.                                                            *)

\* The body of the try block.
Dispatch(c, type) ==
  IF type = PackageLockSelector THEN ParsePackageLock(c)
  ELSE IF type = YarnSelector THEN ParseYarnLock(c)
  ELSE Throw(UnsupportedMsg(type))

\* The outcome of the async function: the graph it resolves with, or the
\* Error it rejects with.
ParseLockfileOutcome(c, type) ==
  LET r == Dispatch(c, type)
  IN IF r.threw
     THEN [returned |-> <<>>, thrown |-> <<WrapMsg(r.message)>>]
     ELSE [returned |-> <<[nodes |-> r.nodes, links |-> r.links]>>, thrown |-> <<>>]

----------------------------------------------------------------------------
(* The documents and selectors a call is made with.                        *)

MaxEntries == 2

MaxBlocks == 2

NameA == <<"a">>

NameB == <<"b">>

Version1 == <<"1">>

Version2 == <<"2">>

NodeModules == <<"n", "o", "d", "e", "_", "m", "o", "d", "u", "l", "e", "s">>

PathA == NodeModules \o <<"/">> \o NameA

PathB == NodeModules \o <<"/">> \o NameB

PathNestedB == PathA \o <<"/">> \o PathB

PathScopedA == NodeModules \o <<"/", "@", "s", "/">> \o NameA

Flags(dev, peer, optional) == [dev |-> dev, peer |-> peer, optional |-> optional]

NoFlags == Flags(FALSE, FALSE, FALSE)

\* An entry of the legacy `dependencies` tree: its key and its details.
TreeEntry(name, version, flags, dependencies) ==
  [name |-> name, version |-> version, dev |-> flags.dev, peer |-> flags.peer,
   optional |-> flags.optional, dependencies |-> dependencies]

TreeLeaves ==
  {TreeEntry(NameA, Version1, NoFlags, <<>>),
   TreeEntry(NameA, Version1, Flags(TRUE, FALSE, FALSE), <<>>),
   TreeEntry(NameA, Version2, Flags(TRUE, TRUE, FALSE), <<>>),
   TreeEntry(NameB, Version1, NoFlags, <<>>),
   TreeEntry(NameB, Version1, Flags(FALSE, TRUE, FALSE), <<>>),
   TreeEntry(NameB, <<>>, Flags(FALSE, FALSE, TRUE), <<>>)}

\* The keys of one object are distinct: the names of one level of the tree,
\* the paths of the table.
DistinctNames(seq) ==
  \A i, j \in 1..Len(seq) : i # j => seq[i].name # seq[j].name

DistinctPaths(seq) ==
  \A i, j \in 1..Len(seq) : i # j => seq[i].path # seq[j].path

\* The `dependencies` trees with at most n entries in all.
RECURSIVE Trees(_)
Trees(n) ==
  IF n = 0
  THEN {<<>>}
  ELSE {<<>>} \cup
       {t \in UNION {{<<[leaf EXCEPT !.dependencies = kids]>> \o rest :
                        leaf \in TreeLeaves, kids \in Trees(i), rest \in Trees(n - 1 - i)}
                     : i \in 0..(n - 1)} :
          DistinctNames(t)}

\* An entry of the flat `packages` table: its path and its details.
TableEntry(path, version, flags, dependencies) ==
  [path |-> path, version |-> version, dev |-> flags.dev, peer |-> flags.peer,
   optional |-> flags.optional, dependencies |-> dependencies]

Declared(name, version) == <<[name |-> name, version |-> version]>>

TableEntries ==
  {TableEntry(<<>>, <<>>, NoFlags, <<>>),
   TableEntry(PathA, Version1, NoFlags, <<>>),
   TableEntry(PathA, Version1, Flags(TRUE, FALSE, FALSE), Declared(NameB, Version1)),
   TableEntry(PathA, <<>>, Flags(FALSE, TRUE, TRUE), <<>>),
   TableEntry(PathB, Version1, NoFlags, Declared(NameA, Version1)),
   TableEntry(PathB, Version2, Flags(TRUE, TRUE, FALSE), Declared(NameB, <<"^", "1">>)),
   TableEntry(PathNestedB, Version1, Flags(FALSE, FALSE, TRUE), Declared(NameA, <<"^", "1">>)),
   TableEntry(PathNestedB, Version2, NoFlags, <<>>),
   TableEntry(PathScopedA, Version1, NoFlags, <<>>),
   TableEntry(PathScopedA, Version2, NoFlags, <<>>)}

\* The `packages` tables with at most n entries.
RECURSIVE Tables(_)
Tables(n) ==
  IF n = 0
  THEN {<<>>}
  ELSE {<<>>} \cup
       {t \in {<<e>> \o rest : e \in TableEntries, rest \in Tables(n - 1)} :
          DistinctPaths(t)}

\* The declared name and version of the root package; both may be absent.
RootDeclarations ==
  {[name |-> <<>>, version |-> <<>>],
   [name |-> NameA, version |-> Version1],
   [name |-> NameB, version |-> <<>>]}

PackageLockValue(root, dependencies, packages) ==
  [name |-> root.name, version |-> root.version,
   dependencies |-> dependencies, packages |-> packages]

EmptyLock == PackageLockValue([name |-> <<>>, version |-> <<>>], <<>>, <<>>)

\* The JSON documents: the value null, or an object with at most n entries
\* in its `dependencies` tree and `packages` table together.  A JSON
\* document is given by its parsed value.
JsonContents(n) ==
  {[kind |-> "null", text |-> <<>>, json |-> EmptyLock]} \cup
  UNION {{[kind |-> "json", text |-> <<>>, json |-> PackageLockValue(r, d, p)] :
            r \in RootDeclarations, d \in Trees(i), p \in Tables(n - i)}
         : i \in 0..n}

\* The lines of a block of the text format.
HeaderLine(name, range) == name \o <<"@", "^">> \o range \o <<":">>

VersionLine(version) == <<" ", " ">> \o VersionPrefix \o <<Quote>> \o version \o <<Quote>>

UnquotedVersionLine(version) == <<" ", " ">> \o VersionPrefix \o version

DependenciesLine == <<" ", " ">> \o DependenciesHeader

DependencyLine(name) == <<" ", " ", " ", " ">> \o name \o <<" ", Quote, "^", "1", Quote>>

CommentLine == <<"#", " ", "v", "1">>

NameC == <<"c">>

\* lines.join(sep)
RECURSIVE Join(_, _)
Join(parts, sep) ==
  IF parts = <<>> THEN <<>>
  ELSE IF Len(parts) = 1 THEN parts[1]
  ELSE parts[1] \o sep \o Join(Tail(parts), sep)

YarnBlocks ==
  {Join(lines, <<"\n">>) : lines \in
     {<<HeaderLine(NameA, Version1), VersionLine(Version1)>>,
      <<HeaderLine(NameA, Version2), VersionLine(Version2)>>,
      <<HeaderLine(NameB, Version1), VersionLine(Version1),
        DependenciesLine, DependencyLine(NameA)>>,
      <<HeaderLine(NameB, Version1), VersionLine(Version2),
        DependenciesLine, DependencyLine(NameC), DependencyLine(NameB)>>,
      <<HeaderLine(YarnRootName, Version1), VersionLine(YarnRootVersion),
        DependenciesLine, DependencyLine(NameA)>>,
      <<<<"@", "s", "/">> \o HeaderLine(NameA, Version1), VersionLine(Version1)>>,
      <<CommentLine>>,
      <<HeaderLine(NameA, Version1)>>,
      <<HeaderLine(NameA, Version1), UnquotedVersionLine(Version1)>>,
      <<NameA \o <<":">>, VersionLine(Version1)>>,
      <<>>}}

RECURSIVE BlockLists(_)
BlockLists(n) ==
  IF n = 0
  THEN {<<>>}
  ELSE {<<>>} \cup {<<b>> \o rest : b \in YarnBlocks, rest \in BlockLists(n - 1)}

\* The text documents: at most n blocks separated by a blank line, with or
\* without a final newline.
TextContents(n) ==
  {[kind |-> "text", text |-> Join(blocks, <<"\n", "\n">>) \o tail, json |-> EmptyLock] :
     blocks \in BlockLists(n), tail \in {<<>>, <<"\n">>}}

PnpmSelector == <<"p", "n", "p", "m">>

PackageLockFilename == <<"p", "a", "c", "k", "a", "g", "e", "-", "l", "o", "c", "k", ".", "j", "s", "o", "n">>

YarnFilename == <<"y", "a", "r", "n", ".", "l", "o", "c", "k">>

PnpmFilename == <<"p", "n", "p", "m", "-", "l", "o", "c", "k", ".", "y", "a", "m", "l">>

\* The three selectors of the signature of parseLockfile.
Selectors == {PackageLockSelector, YarnSelector, PnpmSelector}

\* The file names the page hands to parseLockfile as its second argument.
Filenames == {PackageLockFilename, YarnFilename, PnpmFilename}

\* The calls: every JSON document with the JSON selector, every text
\* document with the text selector and the JSON selector, and the documents
\* of one entry or block with every other second argument.  A JSON document
\* is not handed to the text parser, which reads the characters of its text.
Calls ==
  {[content |-> c, lockfileType |-> PackageLockSelector] : c \in JsonContents(MaxEntries)}
  \cup {[content |-> [kind |-> "text", text |-> t, json |-> EmptyLock],
          lockfileType |-> PackageLockSelector] : t \in SpecialTexts}
  \cup {[content |-> c, lockfileType |-> t] :
          c \in TextContents(MaxBlocks), t \in {YarnSelector, PackageLockSelector}}
  \cup {[content |-> c, lockfileType |-> t] :
          c \in JsonContents(1) \cup TextContents(1), t \in {PnpmSelector} \cup Filenames}

\* The page as it is created: nothing loaded, no error, no load in flight.
NoPage ==
  /\ lockfileContent = <<>>
  /\ errorMsg = <<>>
  /\ isLoading = FALSE
  /\ githubRepoUrl = <<>>
  /\ selectedLockfile = PackageLockFilename
  /\ loadingSource = <<>>
  /\ pending = <<>>
  /\ showTableView = FALSE

\* No graph is shown.
NoView == graphData = <<>> /\ controls = <<>> /\ graph = <<>> /\ dragging = <<>> /\ NoPage

----------------------------------------------------------------------------
(* The state machine: one call of parseLockfile.                           *)

Init ==
  /\ \E call \in Calls : content = call.content /\ lockfileType = call.lockfileType
  /\ pc = "called"
  /\ returned = <<>>
  /\ thrown = <<>>
  /\ NoView

\* export async function parseLockfile(lockfileContent, lockfileType)
ParseLockfile ==
  /\ pc = "called"
  /\ pc' = "settled"
  /\ returned' = ParseLockfileOutcome(content, lockfileType).returned
  /\ thrown' = ParseLockfileOutcome(content, lockfileType).thrown
  /\ UNCHANGED <<content, lockfileType, viewVars>>

Next == ParseLockfile

Spec == Init /\ [][Next]_vars

----------------------------------------------------------------------------
(* The YAML package table (pnpm-lock.yaml).  The source holds the selector *)
(* 'pnpm' of parseLockfile and the fields `level` and `dependencies` of    *)
(* NodeType, and no parser for the format: the definitions of this section *)
(* follow the description of the YAML table parser in the specification.   *)

\* The high value a node's distance holds until the traversal reaches it.
Placeholder == 999

\* The position of the last occurrence of a character in a string, -1 when
\* there is none (0-based, as lastIndexOf).
LastIndexOf(s, ch) ==
  IF \E k \in 1..Len(s) : s[k] = ch
  THEN MaxOf({k \in 1..Len(s) : s[k] = ch}) - 1
  ELSE -1

\* The name of a key /name@version of the table.
PnpmName(path) == Substring(path, 1, LastIndexOf(path, "@"))

\* The version of a key /name@version of the table.
PnpmVersion(path) == SubstringFrom(path, LastIndexOf(path, "@") + 1)

\* A declared range without its prefix ^ or ~.
StripRange(range) ==
  IF range # <<>> /\ range[1] \in {"^", "~"} THEN Tail(range) ELSE range

NewPnpmNode(name, version, level) ==
  [id |-> MakeId(name, version), name |-> name, version |-> version,
   level |-> level, dependencies |-> <<>>]

\* The dependency list of the parent gains the id of the dependency.
AddDependency(nodesMap, parentId, depId) ==
  [i \in 1..Len(nodesMap) |->
     IF nodesMap[i].key = parentId
     THEN [nodesMap[i] EXCEPT !.value.dependencies = Append(@, depId)]
     ELSE nodesMap[i]]

\* The declared dependencies of one entry: a node for each if absent, an
\* edge from the entry to it, and its id in the list of the entry.
RECURSIVE ProcessPnpmDependencies(_, _, _)
ProcessPnpmDependencies(st, nodeId, deps) ==
  IF deps = <<>>
  THEN st
  ELSE LET depName == Head(deps).name
           depVersion == StripRange(Head(deps).version)
           depId == MakeId(depName, depVersion)
           nodesMap1 == AddNodeIfAbsent(st.nodesMap, NewPnpmNode(depName, depVersion, Placeholder))
       IN ProcessPnpmDependencies(
            [nodesMap |-> AddDependency(nodesMap1, nodeId, depId),
             links |-> Append(st.links, NewLink(nodeId, depId, "prod"))],
            nodeId, Tail(deps))

\* The edge from the root to an entry whose name the document lists in its
\* top-level dependencies (production) or devDependencies (development).
PnpmRootLink(lock, rootId, name, nodeId) ==
  IF \E k \in 1..Len(lock.dependencies) : lock.dependencies[k] = name
  THEN <<NewLink(rootId, nodeId, "prod")>>
  ELSE IF \E k \in 1..Len(lock.devDependencies) : lock.devDependencies[k] = name
  THEN <<NewLink(rootId, nodeId, "dev")>>
  ELSE <<>>

\* One entry of the table: its node if absent, its root edge, its
\* declared dependencies.
ProcessPnpmEntry(st, lock, rootId, entry) ==
  LET name == PnpmName(entry.path)
      version == PnpmVersion(entry.path)
      nodeId == MakeId(name, version)
      st1 == [nodesMap |-> AddNodeIfAbsent(st.nodesMap, NewPnpmNode(name, version, Placeholder)),
              links |-> st.links \o PnpmRootLink(lock, rootId, name, nodeId)]
  IN ProcessPnpmDependencies(st1, nodeId, entry.dependencies)

RECURSIVE ProcessPnpmEntries(_, _, _, _)
ProcessPnpmEntries(st, lock, rootId, entries) ==
  IF entries = <<>>
  THEN st
  ELSE ProcessPnpmEntries(ProcessPnpmEntry(st, lock, rootId, Head(entries)),
                          lock, rootId, Tail(entries))

\* A traversal that follows an edge from either end.
NeighbourIds(links, id) ==
  LET touching == SelectSeq(links, LAMBDA l : l.source = id \/ l.target = id)
  IN [k \in 1..Len(touching) |->
        IF touching[k].source = id THEN touching[k].target ELSE touching[k].source]

\* The targets of the edges that leave a node, in the order of the edges.
LinkTargets(links, id) ==
  LET outgoing == SelectSeq(links, LAMBDA l : l.source = id)
  IN [k \in 1..Len(outgoing) |-> outgoing[k].target]

SetLevel(nodesMap, id, level) ==
  [i \in 1..Len(nodesMap) |->
     IF nodesMap[i].key = id
     THEN [nodesMap[i] EXCEPT !.value.level = level]
     ELSE nodesMap[i]]

\* The targets of the node taken from the queue: a target whose distance
\* is larger than one hop more than that of the node gets that distance and
\* joins the queue.
RECURSIVE VisitTargets(_, _, _, _)
VisitTargets(nodesMap, queue, targets, level) ==
  IF targets = <<>>
  THEN [nodesMap |-> nodesMap, queue |-> queue]
  ELSE IF MapHas(nodesMap, Head(targets)) /\ MapGet(nodesMap, Head(targets)).level > level + 1
  THEN VisitTargets(SetLevel(nodesMap, Head(targets), level + 1),
                    Append(queue, Head(targets)), Tail(targets), level)
  ELSE VisitTargets(nodesMap, queue, Tail(targets), level)

\* The breadth-first traversal from the root.
RECURSIVE ComputeLevels(_, _, _)
ComputeLevels(nodesMap, links, queue) ==
  IF queue = <<>>
  THEN nodesMap
  ELSE LET visited == VisitTargets(nodesMap, Tail(queue), LinkTargets(links, Head(queue)),
                                   MapGet(nodesMap, Head(queue)).level)
       IN ComputeLevels(visited.nodesMap, links, visited.queue)

\* The graph of a YAML table: the root at distance 0, the entries, the
\* distances, the edges between nodes of the graph.
PnpmGraph(lock) ==
  LET rootId == MakeId(lock.name, lock.version)
      st0 == [nodesMap |-> MapSet(<<>>, rootId, NewPnpmNode(lock.name, lock.version, 0)),
              links |-> <<>>]
      st1 == ProcessPnpmEntries(st0, lock, rootId, lock.packages)
      nodes == MapValues(ComputeLevels(st1.nodesMap, st1.links, <<rootId>>))
  IN Graph(nodes, ValidLinks(nodes, st1.links))

\* A parser that, like the other two, refuses a graph of the root alone.
ParsePnpmLockOrFail(c) ==
  IF Len(PnpmGraph(c.yaml).nodes) <= 1 THEN Throw(NoDepsYarnMsg) ELSE PnpmGraph(c.yaml)

\* The graph is returned as it is, the root alone included.
ParsePnpmLock(c) == PnpmGraph(c.yaml)

\* The outcome of parseLockfile for the pnpm selector.
ParsePnpmLockfileOutcome(c) ==
  LET r == ParsePnpmLock(c)
  IN IF r.threw
     THEN [returned |-> <<>>, thrown |-> <<WrapMsg(r.message)>>]
     ELSE [returned |-> <<[nodes |-> r.nodes, links |-> r.links]>>, thrown |-> <<>>]

\* An entry of the YAML table: its key and its declared dependencies.
PnpmEntry(name, version, dependencies) ==
  [path |-> <<"/">> \o name \o <<"@">> \o version, dependencies |-> dependencies]

PnpmEntries ==
  {PnpmEntry(NameA, Version1, <<>>),
   PnpmEntry(NameA, Version1, Declared(NameB, <<"^", "1">>)),
   PnpmEntry(NameA, Version2, Declared(NameC, <<"~", "1">>)),
   PnpmEntry(NameB, Version1, <<>>),
   PnpmEntry(NameB, Version1, Declared(NameA, Version1)),
   PnpmEntry(NameB, Version1, Declared(NameC, Version1) \o Declared(NameA, Version2)),
   PnpmEntry(NameC, Version1, Declared(NameB, Version1))}

\* The YAML tables with at most n entries.
RECURSIVE PnpmTables(_)
PnpmTables(n) ==
  IF n = 0
  THEN {<<>>}
  ELSE {<<>>} \cup
       {t \in {<<e>> \o rest : e \in PnpmEntries, rest \in PnpmTables(n - 1)} :
          DistinctPaths(t)}

\* The names a document lists as top-level dependencies and as
\* devDependencies: no name is in both.
TopLevelLists ==
  {t \in [dependencies : {<<>>, <<NameA>>, <<NameB>>, <<NameA, NameB>>},
          devDependencies : {<<>>, <<NameA>>, <<NameB>>, <<NameA, NameB>>}] :
     \A i \in 1..Len(t.dependencies) : \A j \in 1..Len(t.devDependencies) :
       t.dependencies[i] # t.devDependencies[j]}

\* The YAML documents, given by their parsed value: a declared name and
\* version, the two top-level lists, a table of at most n entries.
YamlContents(n) ==
  {[kind |-> "yaml", text |-> <<>>, json |-> EmptyLock,
    yaml |-> [name |-> r.name, version |-> r.version,
              dependencies |-> t.dependencies, devDependencies |-> t.devDependencies,
              packages |-> p]] :
     r \in {[name |-> NameA, version |-> Version1], [name |-> NameC, version |-> Version2]},
     t \in TopLevelLists,
     p \in PnpmTables(n)}

PnpmInit ==
  /\ content \in YamlContents(MaxEntries)
  /\ lockfileType = PnpmSelector
  /\ pc = "called"
  /\ returned = <<>>
  /\ thrown = <<>>
  /\ NoView

\* parseLockfile(content, 'pnpm')
ParsePnpmLockfile ==
  /\ pc = "called"
  /\ lockfileType = PnpmSelector
  /\ pc' = "settled"
  /\ returned' = ParsePnpmLockfileOutcome(content).returned
  /\ thrown' = ParsePnpmLockfileOutcome(content).thrown
  /\ UNCHANGED <<content, lockfileType, viewVars>>

PnpmNext == ParsePnpmLockfile

PnpmSpec == PnpmInit /\ [][PnpmNext]_vars

----------------------------------------------------------------------------
(* The documents of the calls whose graph is shown or loaded.              *)

YarnDocument(blocks) ==
  [kind |-> "text", text |-> Join(blocks, <<"\n", "\n">>), json |-> EmptyLock]

JsonDocument(dependencies, packages) ==
  [kind |-> "json", text |-> <<>>,
   json |-> PackageLockValue([name |-> <<>>, version |-> <<>>], dependencies, packages)]

----------------------------------------------------------------------------
(* The components that show a returned graph: Controls.svelte filters it   *)
(* and hands the result to DependencyGraph.svelte, which runs the d3 force *)
(* simulation on it.  graphData holds the objects parseLockfile returned.  *)
(* An array handed on is a sequence of positions in graphData: the filters *)
(* build new arrays of the same objects.  A cell of the graph component is *)
(* either such a position (ref, the original object) or an object of its   *)
(* own (obj, ref = 0).  A component that is not rendered is the empty      *)
(* sequence: controls while the table is shown, graph while no node is     *)
(* displayed.  The numbers d3 computes are the one value "number".  The    *)
(* simulation holds the nodes it was handed last: those of the component,  *)
(* or, when the component took new nodes without handing them on, the      *)
(* earlier ones (simNodes, detached).  It runs from a start or restart     *)
(* until the component stops it, and every tick of it puts its nodes into  *)
(* the component; that it comes to rest by itself changes none of these.   *)

\* nodeLimit = $state(300) and nodeLimit += 200, scaled to the graphs of
\* the model, which have fewer than 300 nodes.
NodeLimit == 1

NodeLimitStep == 1

\* The case tables of Unicode 17.0, which toLowerCase follows.  A character
\* of a text is a UTF-16 code unit; one that has no literal of its own is
\* written as the one-element string of its escape, and a character
\* beyond U+FFFF is the pair of its surrogates.

\* The characters of one code unit that have a lower case form of one
\* code unit.
UpperCase ==
  <<"A", "B", "C", "D", "E", "F", "G", "H", "I", "J", "K", "L", "M", "N",
    "O", "P", "Q", "R", "S", "T", "U", "V", "W", "X", "Y", "Z", "\\u00c0",
    "\\u00c1", "\\u00c2", "\\u00c3", "\\u00c4", "\\u00c5", "\\u00c6",
    "\\u00c7", "\\u00c8", "\\u00c9", "\\u00ca", "\\u00cb", "\\u00cc",
    "\\u00cd", "\\u00ce", "\\u00cf", "\\u00d0", "\\u00d1", "\\u00d2",
    "\\u00d3", "\\u00d4", "\\u00d5", "\\u00d6", "\\u00d8", "\\u00d9",
    "\\u00da", "\\u00db", "\\u00dc", "\\u00dd", "\\u00de", "\\u0100",
    "\\u0102", "\\u0104", "\\u0106", "\\u0108", "\\u010a", "\\u010c",
    "\\u010e", "\\u0110", "\\u0112", "\\u0114", "\\u0116", "\\u0118",
    "\\u011a", "\\u011c", "\\u011e", "\\u0120", "\\u0122", "\\u0124",
    "\\u0126", "\\u0128", "\\u012a", "\\u012c", "\\u012e", "\\u0132",
    "\\u0134", "\\u0136", "\\u0139", "\\u013b", "\\u013d", "\\u013f",
    "\\u0141", "\\u0143", "\\u0145", "\\u0147", "\\u014a", "\\u014c",
    "\\u014e", "\\u0150", "\\u0152", "\\u0154", "\\u0156", "\\u0158",
    "\\u015a", "\\u015c", "\\u015e", "\\u0160", "\\u0162", "\\u0164",
    "\\u0166", "\\u0168", "\\u016a", "\\u016c", "\\u016e", "\\u0170",
    "\\u0172", "\\u0174", "\\u0176", "\\u0178", "\\u0179", "\\u017b",
    "\\u017d", "\\u0181", "\\u0182", "\\u0184", "\\u0186", "\\u0187",
    "\\u0189", "\\u018a", "\\u018b", "\\u018e", "\\u018f", "\\u0190",
    "\\u0191", "\\u0193", "\\u0194", "\\u0196", "\\u0197", "\\u0198",
    "\\u019c", "\\u019d", "\\u019f", "\\u01a0", "\\u01a2", "\\u01a4",
    "\\u01a6", "\\u01a7", "\\u01a9", "\\u01ac", "\\u01ae", "\\u01af",
    "\\u01b1", "\\u01b2", "\\u01b3", "\\u01b5", "\\u01b7", "\\u01b8",
    "\\u01bc", "\\u01c4", "\\u01c5", "\\u01c7", "\\u01c8", "\\u01ca",
    "\\u01cb", "\\u01cd", "\\u01cf", "\\u01d1", "\\u01d3", "\\u01d5",
    "\\u01d7", "\\u01d9", "\\u01db", "\\u01de", "\\u01e0", "\\u01e2",
    "\\u01e4", "\\u01e6", "\\u01e8", "\\u01ea", "\\u01ec", "\\u01ee",
    "\\u01f1", "\\u01f2", "\\u01f4", "\\u01f6", "\\u01f7", "\\u01f8",
    "\\u01fa", "\\u01fc", "\\u01fe", "\\u0200", "\\u0202", "\\u0204",
    "\\u0206", "\\u0208", "\\u020a", "\\u020c", "\\u020e", "\\u0210",
    "\\u0212", "\\u0214", "\\u0216", "\\u0218", "\\u021a", "\\u021c",
    "\\u021e", "\\u0220", "\\u0222", "\\u0224", "\\u0226", "\\u0228",
    "\\u022a", "\\u022c", "\\u022e", "\\u0230", "\\u0232", "\\u023a",
    "\\u023b", "\\u023d", "\\u023e", "\\u0241", "\\u0243", "\\u0244",
    "\\u0245", "\\u0246", "\\u0248", "\\u024a", "\\u024c", "\\u024e",
    "\\u0370", "\\u0372", "\\u0376", "\\u037f", "\\u0386", "\\u0388",
    "\\u0389", "\\u038a", "\\u038c", "\\u038e", "\\u038f", "\\u0391",
    "\\u0392", "\\u0393", "\\u0394", "\\u0395", "\\u0396", "\\u0397",
    "\\u0398", "\\u0399", "\\u039a", "\\u039b", "\\u039c", "\\u039d",
    "\\u039e", "\\u039f", "\\u03a0", "\\u03a1", "\\u03a3", "\\u03a4",
    "\\u03a5", "\\u03a6", "\\u03a7", "\\u03a8", "\\u03a9", "\\u03aa",
    "\\u03ab", "\\u03cf", "\\u03d8", "\\u03da", "\\u03dc", "\\u03de",
    "\\u03e0", "\\u03e2", "\\u03e4", "\\u03e6", "\\u03e8", "\\u03ea",
    "\\u03ec", "\\u03ee", "\\u03f4", "\\u03f7", "\\u03f9", "\\u03fa",
    "\\u03fd", "\\u03fe", "\\u03ff", "\\u0400", "\\u0401", "\\u0402",
    "\\u0403", "\\u0404", "\\u0405", "\\u0406", "\\u0407", "\\u0408",
    "\\u0409", "\\u040a", "\\u040b", "\\u040c", "\\u040d", "\\u040e",
    "\\u040f", "\\u0410", "\\u0411", "\\u0412", "\\u0413", "\\u0414",
    "\\u0415", "\\u0416", "\\u0417", "\\u0418", "\\u0419", "\\u041a",
    "\\u041b", "\\u041c", "\\u041d", "\\u041e", "\\u041f", "\\u0420",
    "\\u0421", "\\u0422", "\\u0423", "\\u0424", "\\u0425", "\\u0426",
    "\\u0427", "\\u0428", "\\u0429", "\\u042a", "\\u042b", "\\u042c",
    "\\u042d", "\\u042e", "\\u042f", "\\u0460", "\\u0462", "\\u0464",
    "\\u0466", "\\u0468", "\\u046a", "\\u046c", "\\u046e", "\\u0470",
    "\\u0472", "\\u0474", "\\u0476", "\\u0478", "\\u047a", "\\u047c",
    "\\u047e", "\\u0480", "\\u048a", "\\u048c", "\\u048e", "\\u0490",
    "\\u0492", "\\u0494", "\\u0496", "\\u0498", "\\u049a", "\\u049c",
    "\\u049e", "\\u04a0", "\\u04a2", "\\u04a4", "\\u04a6", "\\u04a8",
    "\\u04aa", "\\u04ac", "\\u04ae", "\\u04b0", "\\u04b2", "\\u04b4",
    "\\u04b6", "\\u04b8", "\\u04ba", "\\u04bc", "\\u04be", "\\u04c0",
    "\\u04c1", "\\u04c3", "\\u04c5", "\\u04c7", "\\u04c9", "\\u04cb",
    "\\u04cd", "\\u04d0", "\\u04d2", "\\u04d4", "\\u04d6", "\\u04d8",
    "\\u04da", "\\u04dc", "\\u04de", "\\u04e0", "\\u04e2", "\\u04e4",
    "\\u04e6", "\\u04e8", "\\u04ea", "\\u04ec", "\\u04ee", "\\u04f0",
    "\\u04f2", "\\u04f4", "\\u04f6", "\\u04f8", "\\u04fa", "\\u04fc",
    "\\u04fe", "\\u0500", "\\u0502", "\\u0504", "\\u0506", "\\u0508",
    "\\u050a", "\\u050c", "\\u050e", "\\u0510", "\\u0512", "\\u0514",
    "\\u0516", "\\u0518", "\\u051a", "\\u051c", "\\u051e", "\\u0520",
    "\\u0522", "\\u0524", "\\u0526", "\\u0528", "\\u052a", "\\u052c",
    "\\u052e", "\\u0531", "\\u0532", "\\u0533", "\\u0534", "\\u0535",
    "\\u0536", "\\u0537", "\\u0538", "\\u0539", "\\u053a", "\\u053b",
    "\\u053c", "\\u053d", "\\u053e", "\\u053f", "\\u0540", "\\u0541",
    "\\u0542", "\\u0543", "\\u0544", "\\u0545", "\\u0546", "\\u0547",
    "\\u0548", "\\u0549", "\\u054a", "\\u054b", "\\u054c", "\\u054d",
    "\\u054e", "\\u054f", "\\u0550", "\\u0551", "\\u0552", "\\u0553",
    "\\u0554", "\\u0555", "\\u0556", "\\u10a0", "\\u10a1", "\\u10a2",
    "\\u10a3", "\\u10a4", "\\u10a5", "\\u10a6", "\\u10a7", "\\u10a8",
    "\\u10a9", "\\u10aa", "\\u10ab", "\\u10ac", "\\u10ad", "\\u10ae",
    "\\u10af", "\\u10b0", "\\u10b1", "\\u10b2", "\\u10b3", "\\u10b4",
    "\\u10b5", "\\u10b6", "\\u10b7", "\\u10b8", "\\u10b9", "\\u10ba",
    "\\u10bb", "\\u10bc", "\\u10bd", "\\u10be", "\\u10bf", "\\u10c0",
    "\\u10c1", "\\u10c2", "\\u10c3", "\\u10c4", "\\u10c5", "\\u10c7",
    "\\u10cd", "\\u13a0", "\\u13a1", "\\u13a2", "\\u13a3", "\\u13a4",
    "\\u13a5", "\\u13a6", "\\u13a7", "\\u13a8", "\\u13a9", "\\u13aa",
    "\\u13ab", "\\u13ac", "\\u13ad", "\\u13ae", "\\u13af", "\\u13b0",
    "\\u13b1", "\\u13b2", "\\u13b3", "\\u13b4", "\\u13b5", "\\u13b6",
    "\\u13b7", "\\u13b8", "\\u13b9", "\\u13ba", "\\u13bb", "\\u13bc",
    "\\u13bd", "\\u13be", "\\u13bf", "\\u13c0", "\\u13c1", "\\u13c2",
    "\\u13c3", "\\u13c4", "\\u13c5", "\\u13c6", "\\u13c7", "\\u13c8",
    "\\u13c9", "\\u13ca", "\\u13cb", "\\u13cc", "\\u13cd", "\\u13ce",
    "\\u13cf", "\\u13d0", "\\u13d1", "\\u13d2", "\\u13d3", "\\u13d4",
    "\\u13d5", "\\u13d6", "\\u13d7", "\\u13d8", "\\u13d9", "\\u13da",
    "\\u13db", "\\u13dc", "\\u13dd", "\\u13de", "\\u13df", "\\u13e0",
    "\\u13e1", "\\u13e2", "\\u13e3", "\\u13e4", "\\u13e5", "\\u13e6",
    "\\u13e7", "\\u13e8", "\\u13e9", "\\u13ea", "\\u13eb", "\\u13ec",
    "\\u13ed", "\\u13ee", "\\u13ef", "\\u13f0", "\\u13f1", "\\u13f2",
    "\\u13f3", "\\u13f4", "\\u13f5", "\\u1c89", "\\u1c90", "\\u1c91",
    "\\u1c92", "\\u1c93", "\\u1c94", "\\u1c95", "\\u1c96", "\\u1c97",
    "\\u1c98", "\\u1c99", "\\u1c9a", "\\u1c9b", "\\u1c9c", "\\u1c9d",
    "\\u1c9e", "\\u1c9f", "\\u1ca0", "\\u1ca1", "\\u1ca2", "\\u1ca3",
    "\\u1ca4", "\\u1ca5", "\\u1ca6", "\\u1ca7", "\\u1ca8", "\\u1ca9",
    "\\u1caa", "\\u1cab", "\\u1cac", "\\u1cad", "\\u1cae", "\\u1caf",
    "\\u1cb0", "\\u1cb1", "\\u1cb2", "\\u1cb3", "\\u1cb4", "\\u1cb5",
    "\\u1cb6", "\\u1cb7", "\\u1cb8", "\\u1cb9", "\\u1cba", "\\u1cbd",
    "\\u1cbe", "\\u1cbf", "\\u1e00", "\\u1e02", "\\u1e04", "\\u1e06",
    "\\u1e08", "\\u1e0a", "\\u1e0c", "\\u1e0e", "\\u1e10", "\\u1e12",
    "\\u1e14", "\\u1e16", "\\u1e18", "\\u1e1a", "\\u1e1c", "\\u1e1e",
    "\\u1e20", "\\u1e22", "\\u1e24", "\\u1e26", "\\u1e28", "\\u1e2a",
    "\\u1e2c", "\\u1e2e", "\\u1e30", "\\u1e32", "\\u1e34", "\\u1e36",
    "\\u1e38", "\\u1e3a", "\\u1e3c", "\\u1e3e", "\\u1e40", "\\u1e42",
    "\\u1e44", "\\u1e46", "\\u1e48", "\\u1e4a", "\\u1e4c", "\\u1e4e",
    "\\u1e50", "\\u1e52", "\\u1e54", "\\u1e56", "\\u1e58", "\\u1e5a",
    "\\u1e5c", "\\u1e5e", "\\u1e60", "\\u1e62", "\\u1e64", "\\u1e66",
    "\\u1e68", "\\u1e6a", "\\u1e6c", "\\u1e6e", "\\u1e70", "\\u1e72",
    "\\u1e74", "\\u1e76", "\\u1e78", "\\u1e7a", "\\u1e7c", "\\u1e7e",
    "\\u1e80", "\\u1e82", "\\u1e84", "\\u1e86", "\\u1e88", "\\u1e8a",
    "\\u1e8c", "\\u1e8e", "\\u1e90", "\\u1e92", "\\u1e94", "\\u1e9e",
    "\\u1ea0", "\\u1ea2", "\\u1ea4", "\\u1ea6", "\\u1ea8", "\\u1eaa",
    "\\u1eac", "\\u1eae", "\\u1eb0", "\\u1eb2", "\\u1eb4", "\\u1eb6",
    "\\u1eb8", "\\u1eba", "\\u1ebc", "\\u1ebe", "\\u1ec0", "\\u1ec2",
    "\\u1ec4", "\\u1ec6", "\\u1ec8", "\\u1eca", "\\u1ecc", "\\u1ece",
    "\\u1ed0", "\\u1ed2", "\\u1ed4", "\\u1ed6", "\\u1ed8", "\\u1eda",
    "\\u1edc", "\\u1ede", "\\u1ee0", "\\u1ee2", "\\u1ee4", "\\u1ee6",
    "\\u1ee8", "\\u1eea", "\\u1eec", "\\u1eee", "\\u1ef0", "\\u1ef2",
    "\\u1ef4", "\\u1ef6", "\\u1ef8", "\\u1efa", "\\u1efc", "\\u1efe",
    "\\u1f08", "\\u1f09", "\\u1f0a", "\\u1f0b", "\\u1f0c", "\\u1f0d",
    "\\u1f0e", "\\u1f0f", "\\u1f18", "\\u1f19", "\\u1f1a", "\\u1f1b",
    "\\u1f1c", "\\u1f1d", "\\u1f28", "\\u1f29", "\\u1f2a", "\\u1f2b",
    "\\u1f2c", "\\u1f2d", "\\u1f2e", "\\u1f2f", "\\u1f38", "\\u1f39",
    "\\u1f3a", "\\u1f3b", "\\u1f3c", "\\u1f3d", "\\u1f3e", "\\u1f3f",
    "\\u1f48", "\\u1f49", "\\u1f4a", "\\u1f4b", "\\u1f4c", "\\u1f4d",
    "\\u1f59", "\\u1f5b", "\\u1f5d", "\\u1f5f", "\\u1f68", "\\u1f69",
    "\\u1f6a", "\\u1f6b", "\\u1f6c", "\\u1f6d", "\\u1f6e", "\\u1f6f",
    "\\u1f88", "\\u1f89", "\\u1f8a", "\\u1f8b", "\\u1f8c", "\\u1f8d",
    "\\u1f8e", "\\u1f8f", "\\u1f98", "\\u1f99", "\\u1f9a", "\\u1f9b",
    "\\u1f9c", "\\u1f9d", "\\u1f9e", "\\u1f9f", "\\u1fa8", "\\u1fa9",
    "\\u1faa", "\\u1fab", "\\u1fac", "\\u1fad", "\\u1fae", "\\u1faf",
    "\\u1fb8", "\\u1fb9", "\\u1fba", "\\u1fbb", "\\u1fbc", "\\u1fc8",
    "\\u1fc9", "\\u1fca", "\\u1fcb", "\\u1fcc", "\\u1fd8", "\\u1fd9",
    "\\u1fda", "\\u1fdb", "\\u1fe8", "\\u1fe9", "\\u1fea", "\\u1feb",
    "\\u1fec", "\\u1ff8", "\\u1ff9", "\\u1ffa", "\\u1ffb", "\\u1ffc",
    "\\u2126", "\\u212a", "\\u212b", "\\u2132", "\\u2160", "\\u2161",
    "\\u2162", "\\u2163", "\\u2164", "\\u2165", "\\u2166", "\\u2167",
    "\\u2168", "\\u2169", "\\u216a", "\\u216b", "\\u216c", "\\u216d",
    "\\u216e", "\\u216f", "\\u2183", "\\u24b6", "\\u24b7", "\\u24b8",
    "\\u24b9", "\\u24ba", "\\u24bb", "\\u24bc", "\\u24bd", "\\u24be",
    "\\u24bf", "\\u24c0", "\\u24c1", "\\u24c2", "\\u24c3", "\\u24c4",
    "\\u24c5", "\\u24c6", "\\u24c7", "\\u24c8", "\\u24c9", "\\u24ca",
    "\\u24cb", "\\u24cc", "\\u24cd", "\\u24ce", "\\u24cf", "\\u2c00",
    "\\u2c01", "\\u2c02", "\\u2c03", "\\u2c04", "\\u2c05", "\\u2c06",
    "\\u2c07", "\\u2c08", "\\u2c09", "\\u2c0a", "\\u2c0b", "\\u2c0c",
    "\\u2c0d", "\\u2c0e", "\\u2c0f", "\\u2c10", "\\u2c11", "\\u2c12",
    "\\u2c13", "\\u2c14", "\\u2c15", "\\u2c16", "\\u2c17", "\\u2c18",
    "\\u2c19", "\\u2c1a", "\\u2c1b", "\\u2c1c", "\\u2c1d", "\\u2c1e",
    "\\u2c1f", "\\u2c20", "\\u2c21", "\\u2c22", "\\u2c23", "\\u2c24",
    "\\u2c25", "\\u2c26", "\\u2c27", "\\u2c28", "\\u2c29", "\\u2c2a",
    "\\u2c2b", "\\u2c2c", "\\u2c2d", "\\u2c2e", "\\u2c2f", "\\u2c60",
    "\\u2c62", "\\u2c63", "\\u2c64", "\\u2c67", "\\u2c69", "\\u2c6b",
    "\\u2c6d", "\\u2c6e", "\\u2c6f", "\\u2c70", "\\u2c72", "\\u2c75",
    "\\u2c7e", "\\u2c7f", "\\u2c80", "\\u2c82", "\\u2c84", "\\u2c86",
    "\\u2c88", "\\u2c8a", "\\u2c8c", "\\u2c8e", "\\u2c90", "\\u2c92",
    "\\u2c94", "\\u2c96", "\\u2c98", "\\u2c9a", "\\u2c9c", "\\u2c9e",
    "\\u2ca0", "\\u2ca2", "\\u2ca4", "\\u2ca6", "\\u2ca8", "\\u2caa",
    "\\u2cac", "\\u2cae", "\\u2cb0", "\\u2cb2", "\\u2cb4", "\\u2cb6",
    "\\u2cb8", "\\u2cba", "\\u2cbc", "\\u2cbe", "\\u2cc0", "\\u2cc2",
    "\\u2cc4", "\\u2cc6", "\\u2cc8", "\\u2cca", "\\u2ccc", "\\u2cce",
    "\\u2cd0", "\\u2cd2", "\\u2cd4", "\\u2cd6", "\\u2cd8", "\\u2cda",
    "\\u2cdc", "\\u2cde", "\\u2ce0", "\\u2ce2", "\\u2ceb", "\\u2ced",
    "\\u2cf2", "\\ua640", "\\ua642", "\\ua644", "\\ua646", "\\ua648",
    "\\ua64a", "\\ua64c", "\\ua64e", "\\ua650", "\\ua652", "\\ua654",
    "\\ua656", "\\ua658", "\\ua65a", "\\ua65c", "\\ua65e", "\\ua660",
    "\\ua662", "\\ua664", "\\ua666", "\\ua668", "\\ua66a", "\\ua66c",
    "\\ua680", "\\ua682", "\\ua684", "\\ua686", "\\ua688", "\\ua68a",
    "\\ua68c", "\\ua68e", "\\ua690", "\\ua692", "\\ua694", "\\ua696",
    "\\ua698", "\\ua69a", "\\ua722", "\\ua724", "\\ua726", "\\ua728",
    "\\ua72a", "\\ua72c", "\\ua72e", "\\ua732", "\\ua734", "\\ua736",
    "\\ua738", "\\ua73a", "\\ua73c", "\\ua73e", "\\ua740", "\\ua742",
    "\\ua744", "\\ua746", "\\ua748", "\\ua74a", "\\ua74c", "\\ua74e",
    "\\ua750", "\\ua752", "\\ua754", "\\ua756", "\\ua758", "\\ua75a",
    "\\ua75c", "\\ua75e", "\\ua760", "\\ua762", "\\ua764", "\\ua766",
    "\\ua768", "\\ua76a", "\\ua76c", "\\ua76e", "\\ua779", "\\ua77b",
    "\\ua77d", "\\ua77e", "\\ua780", "\\ua782", "\\ua784", "\\ua786",
    "\\ua78b", "\\ua78d", "\\ua790", "\\ua792", "\\ua796", "\\ua798",
    "\\ua79a", "\\ua79c", "\\ua79e", "\\ua7a0", "\\ua7a2", "\\ua7a4",
    "\\ua7a6", "\\ua7a8", "\\ua7aa", "\\ua7ab", "\\ua7ac", "\\ua7ad",
    "\\ua7ae", "\\ua7b0", "\\ua7b1", "\\ua7b2", "\\ua7b3", "\\ua7b4",
    "\\ua7b6", "\\ua7b8", "\\ua7ba", "\\ua7bc", "\\ua7be", "\\ua7c0",
    "\\ua7c2", "\\ua7c4", "\\ua7c5", "\\ua7c6", "\\ua7c7", "\\ua7c9",
    "\\ua7cb", "\\ua7cc", "\\ua7ce", "\\ua7d0", "\\ua7d2", "\\ua7d4",
    "\\ua7d6", "\\ua7d8", "\\ua7da", "\\ua7dc", "\\ua7f5", "\\uff21",
    "\\uff22", "\\uff23", "\\uff24", "\\uff25", "\\uff26", "\\uff27",
    "\\uff28", "\\uff29", "\\uff2a", "\\uff2b", "\\uff2c", "\\uff2d",
    "\\uff2e", "\\uff2f", "\\uff30", "\\uff31", "\\uff32", "\\uff33",
    "\\uff34", "\\uff35", "\\uff36", "\\uff37", "\\uff38", "\\uff39",
    "\\uff3a">>

\* The lower case form of each, at the same place.
LowerCase ==
  <<"a", "b", "c", "d", "e", "f", "g", "h", "i", "j", "k", "l", "m", "n",
    "o", "p", "q", "r", "s", "t", "u", "v", "w", "x", "y", "z", "\\u00e0",
    "\\u00e1", "\\u00e2", "\\u00e3", "\\u00e4", "\\u00e5", "\\u00e6",
    "\\u00e7", "\\u00e8", "\\u00e9", "\\u00ea", "\\u00eb", "\\u00ec",
    "\\u00ed", "\\u00ee", "\\u00ef", "\\u00f0", "\\u00f1", "\\u00f2",
    "\\u00f3", "\\u00f4", "\\u00f5", "\\u00f6", "\\u00f8", "\\u00f9",
    "\\u00fa", "\\u00fb", "\\u00fc", "\\u00fd", "\\u00fe", "\\u0101",
    "\\u0103", "\\u0105", "\\u0107", "\\u0109", "\\u010b", "\\u010d",
    "\\u010f", "\\u0111", "\\u0113", "\\u0115", "\\u0117", "\\u0119",
    "\\u011b", "\\u011d", "\\u011f", "\\u0121", "\\u0123", "\\u0125",
    "\\u0127", "\\u0129", "\\u012b", "\\u012d", "\\u012f", "\\u0133",
    "\\u0135", "\\u0137", "\\u013a", "\\u013c", "\\u013e", "\\u0140",
    "\\u0142", "\\u0144", "\\u0146", "\\u0148", "\\u014b", "\\u014d",
    "\\u014f", "\\u0151", "\\u0153", "\\u0155", "\\u0157", "\\u0159",
    "\\u015b", "\\u015d", "\\u015f", "\\u0161", "\\u0163", "\\u0165",
    "\\u0167", "\\u0169", "\\u016b", "\\u016d", "\\u016f", "\\u0171",
    "\\u0173", "\\u0175", "\\u0177", "\\u00ff", "\\u017a", "\\u017c",
    "\\u017e", "\\u0253", "\\u0183", "\\u0185", "\\u0254", "\\u0188",
    "\\u0256", "\\u0257", "\\u018c", "\\u01dd", "\\u0259", "\\u025b",
    "\\u0192", "\\u0260", "\\u0263", "\\u0269", "\\u0268", "\\u0199",
    "\\u026f", "\\u0272", "\\u0275", "\\u01a1", "\\u01a3", "\\u01a5",
    "\\u0280", "\\u01a8", "\\u0283", "\\u01ad", "\\u0288", "\\u01b0",
    "\\u028a", "\\u028b", "\\u01b4", "\\u01b6", "\\u0292", "\\u01b9",
    "\\u01bd", "\\u01c6", "\\u01c6", "\\u01c9", "\\u01c9", "\\u01cc",
    "\\u01cc", "\\u01ce", "\\u01d0", "\\u01d2", "\\u01d4", "\\u01d6",
    "\\u01d8", "\\u01da", "\\u01dc", "\\u01df", "\\u01e1", "\\u01e3",
    "\\u01e5", "\\u01e7", "\\u01e9", "\\u01eb", "\\u01ed", "\\u01ef",
    "\\u01f3", "\\u01f3", "\\u01f5", "\\u0195", "\\u01bf", "\\u01f9",
    "\\u01fb", "\\u01fd", "\\u01ff", "\\u0201", "\\u0203", "\\u0205",
    "\\u0207", "\\u0209", "\\u020b", "\\u020d", "\\u020f", "\\u0211",
    "\\u0213", "\\u0215", "\\u0217", "\\u0219", "\\u021b", "\\u021d",
    "\\u021f", "\\u019e", "\\u0223", "\\u0225", "\\u0227", "\\u0229",
    "\\u022b", "\\u022d", "\\u022f", "\\u0231", "\\u0233", "\\u2c65",
    "\\u023c", "\\u019a", "\\u2c66", "\\u0242", "\\u0180", "\\u0289",
    "\\u028c", "\\u0247", "\\u0249", "\\u024b", "\\u024d", "\\u024f",
    "\\u0371", "\\u0373", "\\u0377", "\\u03f3", "\\u03ac", "\\u03ad",
    "\\u03ae", "\\u03af", "\\u03cc", "\\u03cd", "\\u03ce", "\\u03b1",
    "\\u03b2", "\\u03b3", "\\u03b4", "\\u03b5", "\\u03b6", "\\u03b7",
    "\\u03b8", "\\u03b9", "\\u03ba", "\\u03bb", "\\u03bc", "\\u03bd",
    "\\u03be", "\\u03bf", "\\u03c0", "\\u03c1", "\\u03c3", "\\u03c4",
    "\\u03c5", "\\u03c6", "\\u03c7", "\\u03c8", "\\u03c9", "\\u03ca",
    "\\u03cb", "\\u03d7", "\\u03d9", "\\u03db", "\\u03dd", "\\u03df",
    "\\u03e1", "\\u03e3", "\\u03e5", "\\u03e7", "\\u03e9", "\\u03eb",
    "\\u03ed", "\\u03ef", "\\u03b8", "\\u03f8", "\\u03f2", "\\u03fb",
    "\\u037b", "\\u037c", "\\u037d", "\\u0450", "\\u0451", "\\u0452",
    "\\u0453", "\\u0454", "\\u0455", "\\u0456", "\\u0457", "\\u0458",
    "\\u0459", "\\u045a", "\\u045b", "\\u045c", "\\u045d", "\\u045e",
    "\\u045f", "\\u0430", "\\u0431", "\\u0432", "\\u0433", "\\u0434",
    "\\u0435", "\\u0436", "\\u0437", "\\u0438", "\\u0439", "\\u043a",
    "\\u043b", "\\u043c", "\\u043d", "\\u043e", "\\u043f", "\\u0440",
    "\\u0441", "\\u0442", "\\u0443", "\\u0444", "\\u0445", "\\u0446",
    "\\u0447", "\\u0448", "\\u0449", "\\u044a", "\\u044b", "\\u044c",
    "\\u044d", "\\u044e", "\\u044f", "\\u0461", "\\u0463", "\\u0465",
    "\\u0467", "\\u0469", "\\u046b", "\\u046d", "\\u046f", "\\u0471",
    "\\u0473", "\\u0475", "\\u0477", "\\u0479", "\\u047b", "\\u047d",
    "\\u047f", "\\u0481", "\\u048b", "\\u048d", "\\u048f", "\\u0491",
    "\\u0493", "\\u0495", "\\u0497", "\\u0499", "\\u049b", "\\u049d",
    "\\u049f", "\\u04a1", "\\u04a3", "\\u04a5", "\\u04a7", "\\u04a9",
    "\\u04ab", "\\u04ad", "\\u04af", "\\u04b1", "\\u04b3", "\\u04b5",
    "\\u04b7", "\\u04b9", "\\u04bb", "\\u04bd", "\\u04bf", "\\u04cf",
    "\\u04c2", "\\u04c4", "\\u04c6", "\\u04c8", "\\u04ca", "\\u04cc",
    "\\u04ce", "\\u04d1", "\\u04d3", "\\u04d5", "\\u04d7", "\\u04d9",
    "\\u04db", "\\u04dd", "\\u04df", "\\u04e1", "\\u04e3", "\\u04e5",
    "\\u04e7", "\\u04e9", "\\u04eb", "\\u04ed", "\\u04ef", "\\u04f1",
    "\\u04f3", "\\u04f5", "\\u04f7", "\\u04f9", "\\u04fb", "\\u04fd",
    "\\u04ff", "\\u0501", "\\u0503", "\\u0505", "\\u0507", "\\u0509",
    "\\u050b", "\\u050d", "\\u050f", "\\u0511", "\\u0513", "\\u0515",
    "\\u0517", "\\u0519", "\\u051b", "\\u051d", "\\u051f", "\\u0521",
    "\\u0523", "\\u0525", "\\u0527", "\\u0529", "\\u052b", "\\u052d",
    "\\u052f", "\\u0561", "\\u0562", "\\u0563", "\\u0564", "\\u0565",
    "\\u0566", "\\u0567", "\\u0568", "\\u0569", "\\u056a", "\\u056b",
    "\\u056c", "\\u056d", "\\u056e", "\\u056f", "\\u0570", "\\u0571",
    "\\u0572", "\\u0573", "\\u0574", "\\u0575", "\\u0576", "\\u0577",
    "\\u0578", "\\u0579", "\\u057a", "\\u057b", "\\u057c", "\\u057d",
    "\\u057e", "\\u057f", "\\u0580", "\\u0581", "\\u0582", "\\u0583",
    "\\u0584", "\\u0585", "\\u0586", "\\u2d00", "\\u2d01", "\\u2d02",
    "\\u2d03", "\\u2d04", "\\u2d05", "\\u2d06", "\\u2d07", "\\u2d08",
    "\\u2d09", "\\u2d0a", "\\u2d0b", "\\u2d0c", "\\u2d0d", "\\u2d0e",
    "\\u2d0f", "\\u2d10", "\\u2d11", "\\u2d12", "\\u2d13", "\\u2d14",
    "\\u2d15", "\\u2d16", "\\u2d17", "\\u2d18", "\\u2d19", "\\u2d1a",
    "\\u2d1b", "\\u2d1c", "\\u2d1d", "\\u2d1e", "\\u2d1f", "\\u2d20",
    "\\u2d21", "\\u2d22", "\\u2d23", "\\u2d24", "\\u2d25", "\\u2d27",
    "\\u2d2d", "\\uab70", "\\uab71", "\\uab72", "\\uab73", "\\uab74",
    "\\uab75", "\\uab76", "\\uab77", "\\uab78", "\\uab79", "\\uab7a",
    "\\uab7b", "\\uab7c", "\\uab7d", "\\uab7e", "\\uab7f", "\\uab80",
    "\\uab81", "\\uab82", "\\uab83", "\\uab84", "\\uab85", "\\uab86",
    "\\uab87", "\\uab88", "\\uab89", "\\uab8a", "\\uab8b", "\\uab8c",
    "\\uab8d", "\\uab8e", "\\uab8f", "\\uab90", "\\uab91", "\\uab92",
    "\\uab93", "\\uab94", "\\uab95", "\\uab96", "\\uab97", "\\uab98",
    "\\uab99", "\\uab9a", "\\uab9b", "\\uab9c", "\\uab9d", "\\uab9e",
    "\\uab9f", "\\uaba0", "\\uaba1", "\\uaba2", "\\uaba3", "\\uaba4",
    "\\uaba5", "\\uaba6", "\\uaba7", "\\uaba8", "\\uaba9", "\\uabaa",
    "\\uabab", "\\uabac", "\\uabad", "\\uabae", "\\uabaf", "\\uabb0",
    "\\uabb1", "\\uabb2", "\\uabb3", "\\uabb4", "\\uabb5", "\\uabb6",
    "\\uabb7", "\\uabb8", "\\uabb9", "\\uabba", "\\uabbb", "\\uabbc",
    "\\uabbd", "\\uabbe", "\\uabbf", "\\u13f8", "\\u13f9", "\\u13fa",
    "\\u13fb", "\\u13fc", "\\u13fd", "\\u1c8a", "\\u10d0", "\\u10d1",
    "\\u10d2", "\\u10d3", "\\u10d4", "\\u10d5", "\\u10d6", "\\u10d7",
    "\\u10d8", "\\u10d9", "\\u10da", "\\u10db", "\\u10dc", "\\u10dd",
    "\\u10de", "\\u10df", "\\u10e0", "\\u10e1", "\\u10e2", "\\u10e3",
    "\\u10e4", "\\u10e5", "\\u10e6", "\\u10e7", "\\u10e8", "\\u10e9",
    "\\u10ea", "\\u10eb", "\\u10ec", "\\u10ed", "\\u10ee", "\\u10ef",
    "\\u10f0", "\\u10f1", "\\u10f2", "\\u10f3", "\\u10f4", "\\u10f5",
    "\\u10f6", "\\u10f7", "\\u10f8", "\\u10f9", "\\u10fa", "\\u10fd",
    "\\u10fe", "\\u10ff", "\\u1e01", "\\u1e03", "\\u1e05", "\\u1e07",
    "\\u1e09", "\\u1e0b", "\\u1e0d", "\\u1e0f", "\\u1e11", "\\u1e13",
    "\\u1e15", "\\u1e17", "\\u1e19", "\\u1e1b", "\\u1e1d", "\\u1e1f",
    "\\u1e21", "\\u1e23", "\\u1e25", "\\u1e27", "\\u1e29", "\\u1e2b",
    "\\u1e2d", "\\u1e2f", "\\u1e31", "\\u1e33", "\\u1e35", "\\u1e37",
    "\\u1e39", "\\u1e3b", "\\u1e3d", "\\u1e3f", "\\u1e41", "\\u1e43",
    "\\u1e45", "\\u1e47", "\\u1e49", "\\u1e4b", "\\u1e4d", "\\u1e4f",
    "\\u1e51", "\\u1e53", "\\u1e55", "\\u1e57", "\\u1e59", "\\u1e5b",
    "\\u1e5d", "\\u1e5f", "\\u1e61", "\\u1e63", "\\u1e65", "\\u1e67",
    "\\u1e69", "\\u1e6b", "\\u1e6d", "\\u1e6f", "\\u1e71", "\\u1e73",
    "\\u1e75", "\\u1e77", "\\u1e79", "\\u1e7b", "\\u1e7d", "\\u1e7f",
    "\\u1e81", "\\u1e83", "\\u1e85", "\\u1e87", "\\u1e89", "\\u1e8b",
    "\\u1e8d", "\\u1e8f", "\\u1e91", "\\u1e93", "\\u1e95", "\\u00df",
    "\\u1ea1", "\\u1ea3", "\\u1ea5", "\\u1ea7", "\\u1ea9", "\\u1eab",
    "\\u1ead", "\\u1eaf", "\\u1eb1", "\\u1eb3", "\\u1eb5", "\\u1eb7",
    "\\u1eb9", "\\u1ebb", "\\u1ebd", "\\u1ebf", "\\u1ec1", "\\u1ec3",
    "\\u1ec5", "\\u1ec7", "\\u1ec9", "\\u1ecb", "\\u1ecd", "\\u1ecf",
    "\\u1ed1", "\\u1ed3", "\\u1ed5", "\\u1ed7", "\\u1ed9", "\\u1edb",
    "\\u1edd", "\\u1edf", "\\u1ee1", "\\u1ee3", "\\u1ee5", "\\u1ee7",
    "\\u1ee9", "\\u1eeb", "\\u1eed", "\\u1eef", "\\u1ef1", "\\u1ef3",
    "\\u1ef5", "\\u1ef7", "\\u1ef9", "\\u1efb", "\\u1efd", "\\u1eff",
    "\\u1f00", "\\u1f01", "\\u1f02", "\\u1f03", "\\u1f04", "\\u1f05",
    "\\u1f06", "\\u1f07", "\\u1f10", "\\u1f11", "\\u1f12", "\\u1f13",
    "\\u1f14", "\\u1f15", "\\u1f20", "\\u1f21", "\\u1f22", "\\u1f23",
    "\\u1f24", "\\u1f25", "\\u1f26", "\\u1f27", "\\u1f30", "\\u1f31",
    "\\u1f32", "\\u1f33", "\\u1f34", "\\u1f35", "\\u1f36", "\\u1f37",
    "\\u1f40", "\\u1f41", "\\u1f42", "\\u1f43", "\\u1f44", "\\u1f45",
    "\\u1f51", "\\u1f53", "\\u1f55", "\\u1f57", "\\u1f60", "\\u1f61",
    "\\u1f62", "\\u1f63", "\\u1f64", "\\u1f65", "\\u1f66", "\\u1f67",
    "\\u1f80", "\\u1f81", "\\u1f82", "\\u1f83", "\\u1f84", "\\u1f85",
    "\\u1f86", "\\u1f87", "\\u1f90", "\\u1f91", "\\u1f92", "\\u1f93",
    "\\u1f94", "\\u1f95", "\\u1f96", "\\u1f97", "\\u1fa0", "\\u1fa1",
    "\\u1fa2", "\\u1fa3", "\\u1fa4", "\\u1fa5", "\\u1fa6", "\\u1fa7",
    "\\u1fb0", "\\u1fb1", "\\u1f70", "\\u1f71", "\\u1fb3", "\\u1f72",
    "\\u1f73", "\\u1f74", "\\u1f75", "\\u1fc3", "\\u1fd0", "\\u1fd1",
    "\\u1f76", "\\u1f77", "\\u1fe0", "\\u1fe1", "\\u1f7a", "\\u1f7b",
    "\\u1fe5", "\\u1f78", "\\u1f79", "\\u1f7c", "\\u1f7d", "\\u1ff3",
    "\\u03c9", "k", "\\u00e5", "\\u214e", "\\u2170", "\\u2171", "\\u2172",
    "\\u2173", "\\u2174", "\\u2175", "\\u2176", "\\u2177", "\\u2178",
    "\\u2179", "\\u217a", "\\u217b", "\\u217c", "\\u217d", "\\u217e",
    "\\u217f", "\\u2184", "\\u24d0", "\\u24d1", "\\u24d2", "\\u24d3",
    "\\u24d4", "\\u24d5", "\\u24d6", "\\u24d7", "\\u24d8", "\\u24d9",
    "\\u24da", "\\u24db", "\\u24dc", "\\u24dd", "\\u24de", "\\u24df",
    "\\u24e0", "\\u24e1", "\\u24e2", "\\u24e3", "\\u24e4", "\\u24e5",
    "\\u24e6", "\\u24e7", "\\u24e8", "\\u24e9", "\\u2c30", "\\u2c31",
    "\\u2c32", "\\u2c33", "\\u2c34", "\\u2c35", "\\u2c36", "\\u2c37",
    "\\u2c38", "\\u2c39", "\\u2c3a", "\\u2c3b", "\\u2c3c", "\\u2c3d",
    "\\u2c3e", "\\u2c3f", "\\u2c40", "\\u2c41", "\\u2c42", "\\u2c43",
    "\\u2c44", "\\u2c45", "\\u2c46", "\\u2c47", "\\u2c48", "\\u2c49",
    "\\u2c4a", "\\u2c4b", "\\u2c4c", "\\u2c4d", "\\u2c4e", "\\u2c4f",
    "\\u2c50", "\\u2c51", "\\u2c52", "\\u2c53", "\\u2c54", "\\u2c55",
    "\\u2c56", "\\u2c57", "\\u2c58", "\\u2c59", "\\u2c5a", "\\u2c5b",
    "\\u2c5c", "\\u2c5d", "\\u2c5e", "\\u2c5f", "\\u2c61", "\\u026b",
    "\\u1d7d", "\\u027d", "\\u2c68", "\\u2c6a", "\\u2c6c", "\\u0251",
    "\\u0271", "\\u0250", "\\u0252", "\\u2c73", "\\u2c76", "\\u023f",
    "\\u0240", "\\u2c81", "\\u2c83", "\\u2c85", "\\u2c87", "\\u2c89",
    "\\u2c8b", "\\u2c8d", "\\u2c8f", "\\u2c91", "\\u2c93", "\\u2c95",
    "\\u2c97", "\\u2c99", "\\u2c9b", "\\u2c9d", "\\u2c9f", "\\u2ca1",
    "\\u2ca3", "\\u2ca5", "\\u2ca7", "\\u2ca9", "\\u2cab", "\\u2cad",
    "\\u2caf", "\\u2cb1", "\\u2cb3", "\\u2cb5", "\\u2cb7", "\\u2cb9",
    "\\u2cbb", "\\u2cbd", "\\u2cbf", "\\u2cc1", "\\u2cc3", "\\u2cc5",
    "\\u2cc7", "\\u2cc9", "\\u2ccb", "\\u2ccd", "\\u2ccf", "\\u2cd1",
    "\\u2cd3", "\\u2cd5", "\\u2cd7", "\\u2cd9", "\\u2cdb", "\\u2cdd",
    "\\u2cdf", "\\u2ce1", "\\u2ce3", "\\u2cec", "\\u2cee", "\\u2cf3",
    "\\ua641", "\\ua643", "\\ua645", "\\ua647", "\\ua649", "\\ua64b",
    "\\ua64d", "\\ua64f", "\\ua651", "\\ua653", "\\ua655", "\\ua657",
    "\\ua659", "\\ua65b", "\\ua65d", "\\ua65f", "\\ua661", "\\ua663",
    "\\ua665", "\\ua667", "\\ua669", "\\ua66b", "\\ua66d", "\\ua681",
    "\\ua683", "\\ua685", "\\ua687", "\\ua689", "\\ua68b", "\\ua68d",
    "\\ua68f", "\\ua691", "\\ua693", "\\ua695", "\\ua697", "\\ua699",
    "\\ua69b", "\\ua723", "\\ua725", "\\ua727", "\\ua729", "\\ua72b",
    "\\ua72d", "\\ua72f", "\\ua733", "\\ua735", "\\ua737", "\\ua739",
    "\\ua73b", "\\ua73d", "\\ua73f", "\\ua741", "\\ua743", "\\ua745",
    "\\ua747", "\\ua749", "\\ua74b", "\\ua74d", "\\ua74f", "\\ua751",
    "\\ua753", "\\ua755", "\\ua757", "\\ua759", "\\ua75b", "\\ua75d",
    "\\ua75f", "\\ua761", "\\ua763", "\\ua765", "\\ua767", "\\ua769",
    "\\ua76b", "\\ua76d", "\\ua76f", "\\ua77a", "\\ua77c", "\\u1d79",
    "\\ua77f", "\\ua781", "\\ua783", "\\ua785", "\\ua787", "\\ua78c",
    "\\u0265", "\\ua791", "\\ua793", "\\ua797", "\\ua799", "\\ua79b",
    "\\ua79d", "\\ua79f", "\\ua7a1", "\\ua7a3", "\\ua7a5", "\\ua7a7",
    "\\ua7a9", "\\u0266", "\\u025c", "\\u0261", "\\u026c", "\\u026a",
    "\\u029e", "\\u0287", "\\u029d", "\\uab53", "\\ua7b5", "\\ua7b7",
    "\\ua7b9", "\\ua7bb", "\\ua7bd", "\\ua7bf", "\\ua7c1", "\\ua7c3",
    "\\ua794", "\\u0282", "\\u1d8e", "\\ua7c8", "\\ua7ca", "\\u0264",
    "\\ua7cd", "\\ua7cf", "\\ua7d1", "\\ua7d3", "\\ua7d5", "\\ua7d7",
    "\\ua7d9", "\\ua7db", "\\u019b", "\\ua7f6", "\\uff41", "\\uff42",
    "\\uff43", "\\uff44", "\\uff45", "\\uff46", "\\uff47", "\\uff48",
    "\\uff49", "\\uff4a", "\\uff4b", "\\uff4c", "\\uff4d", "\\uff4e",
    "\\uff4f", "\\uff50", "\\uff51", "\\uff52", "\\uff53", "\\uff54",
    "\\uff55", "\\uff56", "\\uff57", "\\uff58", "\\uff59", "\\uff5a">>

\* The same for the characters that are pairs of surrogates: the second
\* halves of those whose first half is high.
UpperCaseLow(high) ==
  IF high = "\\ud801"
  THEN
    <<"\\udc00", "\\udc01", "\\udc02", "\\udc03", "\\udc04", "\\udc05",
      "\\udc06", "\\udc07", "\\udc08", "\\udc09", "\\udc0a", "\\udc0b",
      "\\udc0c", "\\udc0d", "\\udc0e", "\\udc0f", "\\udc10", "\\udc11",
      "\\udc12", "\\udc13", "\\udc14", "\\udc15", "\\udc16", "\\udc17",
      "\\udc18", "\\udc19", "\\udc1a", "\\udc1b", "\\udc1c", "\\udc1d",
      "\\udc1e", "\\udc1f", "\\udc20", "\\udc21", "\\udc22", "\\udc23",
      "\\udc24", "\\udc25", "\\udc26", "\\udc27", "\\udcb0", "\\udcb1",
      "\\udcb2", "\\udcb3", "\\udcb4", "\\udcb5", "\\udcb6", "\\udcb7",
      "\\udcb8", "\\udcb9", "\\udcba", "\\udcbb", "\\udcbc", "\\udcbd",
      "\\udcbe", "\\udcbf", "\\udcc0", "\\udcc1", "\\udcc2", "\\udcc3",
      "\\udcc4", "\\udcc5", "\\udcc6", "\\udcc7", "\\udcc8", "\\udcc9",
      "\\udcca", "\\udccb", "\\udccc", "\\udccd", "\\udcce", "\\udccf",
      "\\udcd0", "\\udcd1", "\\udcd2", "\\udcd3", "\\udd70", "\\udd71",
      "\\udd72", "\\udd73", "\\udd74", "\\udd75", "\\udd76", "\\udd77",
      "\\udd78", "\\udd79", "\\udd7a", "\\udd7c", "\\udd7d", "\\udd7e",
      "\\udd7f", "\\udd80", "\\udd81", "\\udd82", "\\udd83", "\\udd84",
      "\\udd85", "\\udd86", "\\udd87", "\\udd88", "\\udd89", "\\udd8a",
      "\\udd8c", "\\udd8d", "\\udd8e", "\\udd8f", "\\udd90", "\\udd91",
      "\\udd92", "\\udd94", "\\udd95">>
  ELSE IF high = "\\ud803"
  THEN
    <<"\\udc80", "\\udc81", "\\udc82", "\\udc83", "\\udc84", "\\udc85",
      "\\udc86", "\\udc87", "\\udc88", "\\udc89", "\\udc8a", "\\udc8b",
      "\\udc8c", "\\udc8d", "\\udc8e", "\\udc8f", "\\udc90", "\\udc91",
      "\\udc92", "\\udc93", "\\udc94", "\\udc95", "\\udc96", "\\udc97",
      "\\udc98", "\\udc99", "\\udc9a", "\\udc9b", "\\udc9c", "\\udc9d",
      "\\udc9e", "\\udc9f", "\\udca0", "\\udca1", "\\udca2", "\\udca3",
      "\\udca4", "\\udca5", "\\udca6", "\\udca7", "\\udca8", "\\udca9",
      "\\udcaa", "\\udcab", "\\udcac", "\\udcad", "\\udcae", "\\udcaf",
      "\\udcb0", "\\udcb1", "\\udcb2", "\\udd50", "\\udd51", "\\udd52",
      "\\udd53", "\\udd54", "\\udd55", "\\udd56", "\\udd57", "\\udd58",
      "\\udd59", "\\udd5a", "\\udd5b", "\\udd5c", "\\udd5d", "\\udd5e",
      "\\udd5f", "\\udd60", "\\udd61", "\\udd62", "\\udd63", "\\udd64",
      "\\udd65">>
  ELSE IF high = "\\ud806"
  THEN
    <<"\\udca0", "\\udca1", "\\udca2", "\\udca3", "\\udca4", "\\udca5",
      "\\udca6", "\\udca7", "\\udca8", "\\udca9", "\\udcaa", "\\udcab",
      "\\udcac", "\\udcad", "\\udcae", "\\udcaf", "\\udcb0", "\\udcb1",
      "\\udcb2", "\\udcb3", "\\udcb4", "\\udcb5", "\\udcb6", "\\udcb7",
      "\\udcb8", "\\udcb9", "\\udcba", "\\udcbb", "\\udcbc", "\\udcbd",
      "\\udcbe", "\\udcbf">>
  ELSE IF high = "\\ud81b"
  THEN
    <<"\\ude40", "\\ude41", "\\ude42", "\\ude43", "\\ude44", "\\ude45",
      "\\ude46", "\\ude47", "\\ude48", "\\ude49", "\\ude4a", "\\ude4b",
      "\\ude4c", "\\ude4d", "\\ude4e", "\\ude4f", "\\ude50", "\\ude51",
      "\\ude52", "\\ude53", "\\ude54", "\\ude55", "\\ude56", "\\ude57",
      "\\ude58", "\\ude59", "\\ude5a", "\\ude5b", "\\ude5c", "\\ude5d",
      "\\ude5e", "\\ude5f", "\\udea0", "\\udea1", "\\udea2", "\\udea3",
      "\\udea4", "\\udea5", "\\udea6", "\\udea7", "\\udea8", "\\udea9",
      "\\udeaa", "\\udeab", "\\udeac", "\\udead", "\\udeae", "\\udeaf",
      "\\udeb0", "\\udeb1", "\\udeb2", "\\udeb3", "\\udeb4", "\\udeb5",
      "\\udeb6", "\\udeb7", "\\udeb8">>
  ELSE IF high = "\\ud83a"
  THEN
    <<"\\udd00", "\\udd01", "\\udd02", "\\udd03", "\\udd04", "\\udd05",
      "\\udd06", "\\udd07", "\\udd08", "\\udd09", "\\udd0a", "\\udd0b",
      "\\udd0c", "\\udd0d", "\\udd0e", "\\udd0f", "\\udd10", "\\udd11",
      "\\udd12", "\\udd13", "\\udd14", "\\udd15", "\\udd16", "\\udd17",
      "\\udd18", "\\udd19", "\\udd1a", "\\udd1b", "\\udd1c", "\\udd1d",
      "\\udd1e", "\\udd1f", "\\udd20", "\\udd21">>
  ELSE <<>>

LowerCaseLow(high) ==
  IF high = "\\ud801"
  THEN
    <<"\\udc28", "\\udc29", "\\udc2a", "\\udc2b", "\\udc2c", "\\udc2d",
      "\\udc2e", "\\udc2f", "\\udc30", "\\udc31", "\\udc32", "\\udc33",
      "\\udc34", "\\udc35", "\\udc36", "\\udc37", "\\udc38", "\\udc39",
      "\\udc3a", "\\udc3b", "\\udc3c", "\\udc3d", "\\udc3e", "\\udc3f",
      "\\udc40", "\\udc41", "\\udc42", "\\udc43", "\\udc44", "\\udc45",
      "\\udc46", "\\udc47", "\\udc48", "\\udc49", "\\udc4a", "\\udc4b",
      "\\udc4c", "\\udc4d", "\\udc4e", "\\udc4f", "\\udcd8", "\\udcd9",
      "\\udcda", "\\udcdb", "\\udcdc", "\\udcdd", "\\udcde", "\\udcdf",
      "\\udce0", "\\udce1", "\\udce2", "\\udce3", "\\udce4", "\\udce5",
      "\\udce6", "\\udce7", "\\udce8", "\\udce9", "\\udcea", "\\udceb",
      "\\udcec", "\\udced", "\\udcee", "\\udcef", "\\udcf0", "\\udcf1",
      "\\udcf2", "\\udcf3", "\\udcf4", "\\udcf5", "\\udcf6", "\\udcf7",
      "\\udcf8", "\\udcf9", "\\udcfa", "\\udcfb", "\\udd97", "\\udd98",
      "\\udd99", "\\udd9a", "\\udd9b", "\\udd9c", "\\udd9d", "\\udd9e",
      "\\udd9f", "\\udda0", "\\udda1", "\\udda3", "\\udda4", "\\udda5",
      "\\udda6", "\\udda7", "\\udda8", "\\udda9", "\\uddaa", "\\uddab",
      "\\uddac", "\\uddad", "\\uddae", "\\uddaf", "\\uddb0", "\\uddb1",
      "\\uddb3", "\\uddb4", "\\uddb5", "\\uddb6", "\\uddb7", "\\uddb8",
      "\\uddb9", "\\uddbb", "\\uddbc">>
  ELSE IF high = "\\ud803"
  THEN
    <<"\\udcc0", "\\udcc1", "\\udcc2", "\\udcc3", "\\udcc4", "\\udcc5",
      "\\udcc6", "\\udcc7", "\\udcc8", "\\udcc9", "\\udcca", "\\udccb",
      "\\udccc", "\\udccd", "\\udcce", "\\udccf", "\\udcd0", "\\udcd1",
      "\\udcd2", "\\udcd3", "\\udcd4", "\\udcd5", "\\udcd6", "\\udcd7",
      "\\udcd8", "\\udcd9", "\\udcda", "\\udcdb", "\\udcdc", "\\udcdd",
      "\\udcde", "\\udcdf", "\\udce0", "\\udce1", "\\udce2", "\\udce3",
      "\\udce4", "\\udce5", "\\udce6", "\\udce7", "\\udce8", "\\udce9",
      "\\udcea", "\\udceb", "\\udcec", "\\udced", "\\udcee", "\\udcef",
      "\\udcf0", "\\udcf1", "\\udcf2", "\\udd70", "\\udd71", "\\udd72",
      "\\udd73", "\\udd74", "\\udd75", "\\udd76", "\\udd77", "\\udd78",
      "\\udd79", "\\udd7a", "\\udd7b", "\\udd7c", "\\udd7d", "\\udd7e",
      "\\udd7f", "\\udd80", "\\udd81", "\\udd82", "\\udd83", "\\udd84",
      "\\udd85">>
  ELSE IF high = "\\ud806"
  THEN
    <<"\\udcc0", "\\udcc1", "\\udcc2", "\\udcc3", "\\udcc4", "\\udcc5",
      "\\udcc6", "\\udcc7", "\\udcc8", "\\udcc9", "\\udcca", "\\udccb",
      "\\udccc", "\\udccd", "\\udcce", "\\udccf", "\\udcd0", "\\udcd1",
      "\\udcd2", "\\udcd3", "\\udcd4", "\\udcd5", "\\udcd6", "\\udcd7",
      "\\udcd8", "\\udcd9", "\\udcda", "\\udcdb", "\\udcdc", "\\udcdd",
      "\\udcde", "\\udcdf">>
  ELSE IF high = "\\ud81b"
  THEN
    <<"\\ude60", "\\ude61", "\\ude62", "\\ude63", "\\ude64", "\\ude65",
      "\\ude66", "\\ude67", "\\ude68", "\\ude69", "\\ude6a", "\\ude6b",
      "\\ude6c", "\\ude6d", "\\ude6e", "\\ude6f", "\\ude70", "\\ude71",
      "\\ude72", "\\ude73", "\\ude74", "\\ude75", "\\ude76", "\\ude77",
      "\\ude78", "\\ude79", "\\ude7a", "\\ude7b", "\\ude7c", "\\ude7d",
      "\\ude7e", "\\ude7f", "\\udebb", "\\udebc", "\\udebd", "\\udebe",
      "\\udebf", "\\udec0", "\\udec1", "\\udec2", "\\udec3", "\\udec4",
      "\\udec5", "\\udec6", "\\udec7", "\\udec8", "\\udec9", "\\udeca",
      "\\udecb", "\\udecc", "\\udecd", "\\udece", "\\udecf", "\\uded0",
      "\\uded1", "\\uded2", "\\uded3">>
  ELSE IF high = "\\ud83a"
  THEN
    <<"\\udd22", "\\udd23", "\\udd24", "\\udd25", "\\udd26", "\\udd27",
      "\\udd28", "\\udd29", "\\udd2a", "\\udd2b", "\\udd2c", "\\udd2d",
      "\\udd2e", "\\udd2f", "\\udd30", "\\udd31", "\\udd32", "\\udd33",
      "\\udd34", "\\udd35", "\\udd36", "\\udd37", "\\udd38", "\\udd39",
      "\\udd3a", "\\udd3b", "\\udd3c", "\\udd3d", "\\udd3e", "\\udd3f",
      "\\udd40", "\\udd41", "\\udd42", "\\udd43">>
  ELSE <<>>

\* The characters a case mapping looks through (Case_Ignorable): marks
\* and the punctuation inside a word.
CaseIgnorable ==
  {"'", ".", ":", "^", "\\u0060", "\\u00a8", "\\u00ad", "\\u00af",
   "\\u00b4", "\\u00b7", "\\u00b8", "\\u02b0", "\\u02b1", "\\u02b2",
   "\\u02b3", "\\u02b4", "\\u02b5", "\\u02b6", "\\u02b7", "\\u02b8",
   "\\u02b9", "\\u02ba", "\\u02bb", "\\u02bc", "\\u02bd", "\\u02be",
   "\\u02bf", "\\u02c0", "\\u02c1", "\\u02c2", "\\u02c3", "\\u02c4",
   "\\u02c5", "\\u02c6", "\\u02c7", "\\u02c8", "\\u02c9", "\\u02ca",
   "\\u02cb", "\\u02cc", "\\u02cd", "\\u02ce", "\\u02cf", "\\u02d0",
   "\\u02d1", "\\u02d2", "\\u02d3", "\\u02d4", "\\u02d5", "\\u02d6",
   "\\u02d7", "\\u02d8", "\\u02d9", "\\u02da", "\\u02db", "\\u02dc",
   "\\u02dd", "\\u02de", "\\u02df", "\\u02e0", "\\u02e1", "\\u02e2",
   "\\u02e3", "\\u02e4", "\\u02e5", "\\u02e6", "\\u02e7", "\\u02e8",
   "\\u02e9", "\\u02ea", "\\u02eb", "\\u02ec", "\\u02ed", "\\u02ee",
   "\\u02ef", "\\u02f0", "\\u02f1", "\\u02f2", "\\u02f3", "\\u02f4",
   "\\u02f5", "\\u02f6", "\\u02f7", "\\u02f8", "\\u02f9", "\\u02fa",
   "\\u02fb", "\\u02fc", "\\u02fd", "\\u02fe", "\\u02ff", "\\u0300",
   "\\u0301", "\\u0302", "\\u0303", "\\u0304", "\\u0305", "\\u0306",
   "\\u0307", "\\u0308", "\\u0309", "\\u030a", "\\u030b", "\\u030c",
   "\\u030d", "\\u030e", "\\u030f", "\\u0310", "\\u0311", "\\u0312",
   "\\u0313", "\\u0314", "\\u0315", "\\u0316", "\\u0317", "\\u0318",
   "\\u0319", "\\u031a", "\\u031b", "\\u031c", "\\u031d", "\\u031e",
   "\\u031f", "\\u0320", "\\u0321", "\\u0322", "\\u0323", "\\u0324",
   "\\u0325", "\\u0326", "\\u0327", "\\u0328", "\\u0329", "\\u032a",
   "\\u032b", "\\u032c", "\\u032d", "\\u032e", "\\u032f", "\\u0330",
   "\\u0331", "\\u0332", "\\u0333", "\\u0334", "\\u0335", "\\u0336",
   "\\u0337", "\\u0338", "\\u0339", "\\u033a", "\\u033b", "\\u033c",
   "\\u033d", "\\u033e", "\\u033f", "\\u0340", "\\u0341", "\\u0342",
   "\\u0343", "\\u0344", "\\u0345", "\\u0346", "\\u0347", "\\u0348",
   "\\u0349", "\\u034a", "\\u034b", "\\u034c", "\\u034d", "\\u034e",
   "\\u034f", "\\u0350", "\\u0351", "\\u0352", "\\u0353", "\\u0354",
   "\\u0355", "\\u0356", "\\u0357", "\\u0358", "\\u0359", "\\u035a",
   "\\u035b", "\\u035c", "\\u035d", "\\u035e", "\\u035f", "\\u0360",
   "\\u0361", "\\u0362", "\\u0363", "\\u0364", "\\u0365", "\\u0366",
   "\\u0367", "\\u0368", "\\u0369", "\\u036a", "\\u036b", "\\u036c",
   "\\u036d", "\\u036e", "\\u036f", "\\u0374", "\\u0375", "\\u037a",
   "\\u0384", "\\u0385", "\\u0387", "\\u0483", "\\u0484", "\\u0485",
   "\\u0486", "\\u0487", "\\u0488", "\\u0489", "\\u0559", "\\u055f",
   "\\u0591", "\\u0592", "\\u0593", "\\u0594", "\\u0595", "\\u0596",
   "\\u0597", "\\u0598", "\\u0599", "\\u059a", "\\u059b", "\\u059c",
   "\\u059d", "\\u059e", "\\u059f", "\\u05a0", "\\u05a1", "\\u05a2",
   "\\u05a3", "\\u05a4", "\\u05a5", "\\u05a6", "\\u05a7", "\\u05a8",
   "\\u05a9", "\\u05aa", "\\u05ab", "\\u05ac", "\\u05ad", "\\u05ae",
   "\\u05af", "\\u05b0", "\\u05b1", "\\u05b2", "\\u05b3", "\\u05b4",
   "\\u05b5", "\\u05b6", "\\u05b7", "\\u05b8", "\\u05b9", "\\u05ba",
   "\\u05bb", "\\u05bc", "\\u05bd", "\\u05bf", "\\u05c1", "\\u05c2",
   "\\u05c4", "\\u05c5", "\\u05c7", "\\u05f4", "\\u0600", "\\u0601",
   "\\u0602", "\\u0603", "\\u0604", "\\u0605", "\\u0610", "\\u0611",
   "\\u0612", "\\u0613", "\\u0614", "\\u0615", "\\u0616", "\\u0617",
   "\\u0618", "\\u0619", "\\u061a", "\\u061c", "\\u0640", "\\u064b",
   "\\u064c", "\\u064d", "\\u064e", "\\u064f", "\\u0650", "\\u0651",
   "\\u0652", "\\u0653", "\\u0654", "\\u0655", "\\u0656", "\\u0657",
   "\\u0658", "\\u0659", "\\u065a", "\\u065b", "\\u065c", "\\u065d",
   "\\u065e", "\\u065f", "\\u0670", "\\u06d6", "\\u06d7", "\\u06d8",
   "\\u06d9", "\\u06da", "\\u06db", "\\u06dc", "\\u06dd", "\\u06df",
   "\\u06e0", "\\u06e1", "\\u06e2", "\\u06e3", "\\u06e4", "\\u06e5",
   "\\u06e6", "\\u06e7", "\\u06e8", "\\u06ea", "\\u06eb", "\\u06ec",
   "\\u06ed", "\\u070f", "\\u0711", "\\u0730", "\\u0731", "\\u0732",
   "\\u0733", "\\u0734", "\\u0735", "\\u0736", "\\u0737", "\\u0738",
   "\\u0739", "\\u073a", "\\u073b", "\\u073c", "\\u073d", "\\u073e",
   "\\u073f", "\\u0740", "\\u0741", "\\u0742", "\\u0743", "\\u0744",
   "\\u0745", "\\u0746", "\\u0747", "\\u0748", "\\u0749", "\\u074a",
   "\\u07a6", "\\u07a7", "\\u07a8", "\\u07a9", "\\u07aa", "\\u07ab",
   "\\u07ac", "\\u07ad", "\\u07ae", "\\u07af", "\\u07b0", "\\u07eb",
   "\\u07ec", "\\u07ed", "\\u07ee", "\\u07ef", "\\u07f0", "\\u07f1",
   "\\u07f2", "\\u07f3", "\\u07f4", "\\u07f5", "\\u07fa", "\\u07fd",
   "\\u0816", "\\u0817", "\\u0818", "\\u0819", "\\u081a", "\\u081b",
   "\\u081c", "\\u081d", "\\u081e", "\\u081f", "\\u0820", "\\u0821",
   "\\u0822", "\\u0823", "\\u0824", "\\u0825", "\\u0826", "\\u0827",
   "\\u0828", "\\u0829", "\\u082a", "\\u082b", "\\u082c", "\\u082d",
   "\\u0859", "\\u085a", "\\u085b", "\\u0888", "\\u0890", "\\u0891",
   "\\u0897", "\\u0898", "\\u0899", "\\u089a", "\\u089b", "\\u089c",
   "\\u089d", "\\u089e", "\\u089f", "\\u08c9", "\\u08ca", "\\u08cb",
   "\\u08cc", "\\u08cd", "\\u08ce", "\\u08cf", "\\u08d0", "\\u08d1",
   "\\u08d2", "\\u08d3", "\\u08d4", "\\u08d5", "\\u08d6", "\\u08d7",
   "\\u08d8", "\\u08d9", "\\u08da", "\\u08db", "\\u08dc", "\\u08dd",
   "\\u08de", "\\u08df", "\\u08e0", "\\u08e1", "\\u08e2", "\\u08e3",
   "\\u08e4", "\\u08e5", "\\u08e6", "\\u08e7", "\\u08e8", "\\u08e9",
   "\\u08ea", "\\u08eb", "\\u08ec", "\\u08ed", "\\u08ee", "\\u08ef",
   "\\u08f0", "\\u08f1", "\\u08f2", "\\u08f3", "\\u08f4", "\\u08f5",
   "\\u08f6", "\\u08f7", "\\u08f8", "\\u08f9", "\\u08fa", "\\u08fb",
   "\\u08fc", "\\u08fd", "\\u08fe", "\\u08ff", "\\u0900", "\\u0901",
   "\\u0902", "\\u093a", "\\u093c", "\\u0941", "\\u0942", "\\u0943",
   "\\u0944", "\\u0945", "\\u0946", "\\u0947", "\\u0948", "\\u094d",
   "\\u0951", "\\u0952", "\\u0953", "\\u0954", "\\u0955", "\\u0956",
   "\\u0957", "\\u0962", "\\u0963", "\\u0971", "\\u0981", "\\u09bc",
   "\\u09c1", "\\u09c2", "\\u09c3", "\\u09c4", "\\u09cd", "\\u09e2",
   "\\u09e3", "\\u09fe", "\\u0a01", "\\u0a02", "\\u0a3c", "\\u0a41",
   "\\u0a42", "\\u0a47", "\\u0a48", "\\u0a4b", "\\u0a4c", "\\u0a4d",
   "\\u0a51", "\\u0a70", "\\u0a71", "\\u0a75", "\\u0a81", "\\u0a82",
   "\\u0abc", "\\u0ac1", "\\u0ac2", "\\u0ac3", "\\u0ac4", "\\u0ac5",
   "\\u0ac7", "\\u0ac8", "\\u0acd", "\\u0ae2", "\\u0ae3", "\\u0afa",
   "\\u0afb", "\\u0afc", "\\u0afd", "\\u0afe", "\\u0aff", "\\u0b01",
   "\\u0b3c", "\\u0b3f", "\\u0b41", "\\u0b42", "\\u0b43", "\\u0b44",
   "\\u0b4d", "\\u0b55", "\\u0b56", "\\u0b62", "\\u0b63", "\\u0b82",
   "\\u0bc0", "\\u0bcd", "\\u0c00", "\\u0c04", "\\u0c3c", "\\u0c3e",
   "\\u0c3f", "\\u0c40", "\\u0c46", "\\u0c47", "\\u0c48", "\\u0c4a",
   "\\u0c4b", "\\u0c4c", "\\u0c4d", "\\u0c55", "\\u0c56", "\\u0c62",
   "\\u0c63", "\\u0c81", "\\u0cbc", "\\u0cbf", "\\u0cc6", "\\u0ccc",
   "\\u0ccd", "\\u0ce2", "\\u0ce3", "\\u0d00", "\\u0d01", "\\u0d3b",
   "\\u0d3c", "\\u0d41", "\\u0d42", "\\u0d43", "\\u0d44", "\\u0d4d",
   "\\u0d62", "\\u0d63", "\\u0d81", "\\u0dca", "\\u0dd2", "\\u0dd3",
   "\\u0dd4", "\\u0dd6", "\\u0e31", "\\u0e34", "\\u0e35", "\\u0e36",
   "\\u0e37", "\\u0e38", "\\u0e39", "\\u0e3a", "\\u0e46", "\\u0e47",
   "\\u0e48", "\\u0e49", "\\u0e4a", "\\u0e4b", "\\u0e4c", "\\u0e4d",
   "\\u0e4e", "\\u0eb1", "\\u0eb4", "\\u0eb5", "\\u0eb6", "\\u0eb7",
   "\\u0eb8", "\\u0eb9", "\\u0eba", "\\u0ebb", "\\u0ebc", "\\u0ec6",
   "\\u0ec8", "\\u0ec9", "\\u0eca", "\\u0ecb", "\\u0ecc", "\\u0ecd",
   "\\u0ece", "\\u0f18", "\\u0f19", "\\u0f35", "\\u0f37", "\\u0f39",
   "\\u0f71", "\\u0f72", "\\u0f73", "\\u0f74", "\\u0f75", "\\u0f76",
   "\\u0f77", "\\u0f78", "\\u0f79", "\\u0f7a", "\\u0f7b", "\\u0f7c",
   "\\u0f7d", "\\u0f7e", "\\u0f80", "\\u0f81", "\\u0f82", "\\u0f83",
   "\\u0f84", "\\u0f86", "\\u0f87", "\\u0f8d", "\\u0f8e", "\\u0f8f",
   "\\u0f90", "\\u0f91", "\\u0f92", "\\u0f93", "\\u0f94", "\\u0f95",
   "\\u0f96", "\\u0f97", "\\u0f99", "\\u0f9a", "\\u0f9b", "\\u0f9c",
   "\\u0f9d", "\\u0f9e", "\\u0f9f", "\\u0fa0", "\\u0fa1", "\\u0fa2",
   "\\u0fa3", "\\u0fa4", "\\u0fa5", "\\u0fa6", "\\u0fa7", "\\u0fa8",
   "\\u0fa9", "\\u0faa", "\\u0fab", "\\u0fac", "\\u0fad", "\\u0fae",
   "\\u0faf", "\\u0fb0", "\\u0fb1", "\\u0fb2", "\\u0fb3", "\\u0fb4",
   "\\u0fb5", "\\u0fb6", "\\u0fb7", "\\u0fb8", "\\u0fb9", "\\u0fba",
   "\\u0fbb", "\\u0fbc", "\\u0fc6", "\\u102d", "\\u102e", "\\u102f",
   "\\u1030", "\\u1032", "\\u1033", "\\u1034", "\\u1035", "\\u1036",
   "\\u1037", "\\u1039", "\\u103a", "\\u103d", "\\u103e", "\\u1058",
   "\\u1059", "\\u105e", "\\u105f", "\\u1060", "\\u1071", "\\u1072",
   "\\u1073", "\\u1074", "\\u1082", "\\u1085", "\\u1086", "\\u108d",
   "\\u109d", "\\u10fc", "\\u135d", "\\u135e", "\\u135f", "\\u1712",
   "\\u1713", "\\u1714", "\\u1732", "\\u1733", "\\u1752", "\\u1753",
   "\\u1772", "\\u1773", "\\u17b4", "\\u17b5", "\\u17b7", "\\u17b8",
   "\\u17b9", "\\u17ba", "\\u17bb", "\\u17bc", "\\u17bd", "\\u17c6",
   "\\u17c9", "\\u17ca", "\\u17cb", "\\u17cc", "\\u17cd", "\\u17ce",
   "\\u17cf", "\\u17d0", "\\u17d1", "\\u17d2", "\\u17d3", "\\u17d7",
   "\\u17dd", "\\u180b", "\\u180c", "\\u180d", "\\u180e", "\\u180f",
   "\\u1843", "\\u1885", "\\u1886", "\\u18a9", "\\u1920", "\\u1921",
   "\\u1922", "\\u1927", "\\u1928", "\\u1932", "\\u1939", "\\u193a",
   "\\u193b", "\\u1a17", "\\u1a18", "\\u1a1b", "\\u1a56", "\\u1a58",
   "\\u1a59", "\\u1a5a", "\\u1a5b", "\\u1a5c", "\\u1a5d", "\\u1a5e",
   "\\u1a60", "\\u1a62", "\\u1a65", "\\u1a66", "\\u1a67", "\\u1a68",
   "\\u1a69", "\\u1a6a", "\\u1a6b", "\\u1a6c", "\\u1a73", "\\u1a74",
   "\\u1a75", "\\u1a76", "\\u1a77", "\\u1a78", "\\u1a79", "\\u1a7a",
   "\\u1a7b", "\\u1a7c", "\\u1a7f", "\\u1aa7", "\\u1ab0", "\\u1ab1",
   "\\u1ab2", "\\u1ab3", "\\u1ab4", "\\u1ab5", "\\u1ab6", "\\u1ab7",
   "\\u1ab8", "\\u1ab9", "\\u1aba", "\\u1abb", "\\u1abc", "\\u1abd",
   "\\u1abe", "\\u1abf", "\\u1ac0", "\\u1ac1", "\\u1ac2", "\\u1ac3",
   "\\u1ac4", "\\u1ac5", "\\u1ac6", "\\u1ac7", "\\u1ac8", "\\u1ac9",
   "\\u1aca", "\\u1acb", "\\u1acc", "\\u1acd", "\\u1ace", "\\u1acf",
   "\\u1ad0", "\\u1ad1", "\\u1ad2", "\\u1ad3", "\\u1ad4", "\\u1ad5",
   "\\u1ad6", "\\u1ad7", "\\u1ad8", "\\u1ad9", "\\u1ada", "\\u1adb",
   "\\u1adc", "\\u1add", "\\u1ae0", "\\u1ae1", "\\u1ae2", "\\u1ae3",
   "\\u1ae4", "\\u1ae5", "\\u1ae6", "\\u1ae7", "\\u1ae8", "\\u1ae9",
   "\\u1aea", "\\u1aeb", "\\u1b00", "\\u1b01", "\\u1b02", "\\u1b03",
   "\\u1b34", "\\u1b36", "\\u1b37", "\\u1b38", "\\u1b39", "\\u1b3a",
   "\\u1b3c", "\\u1b42", "\\u1b6b", "\\u1b6c", "\\u1b6d", "\\u1b6e",
   "\\u1b6f", "\\u1b70", "\\u1b71", "\\u1b72", "\\u1b73", "\\u1b80",
   "\\u1b81", "\\u1ba2", "\\u1ba3", "\\u1ba4", "\\u1ba5", "\\u1ba8",
   "\\u1ba9", "\\u1bab", "\\u1bac", "\\u1bad", "\\u1be6", "\\u1be8",
   "\\u1be9", "\\u1bed", "\\u1bef", "\\u1bf0", "\\u1bf1", "\\u1c2c",
   "\\u1c2d", "\\u1c2e", "\\u1c2f", "\\u1c30", "\\u1c31", "\\u1c32",
   "\\u1c33", "\\u1c36", "\\u1c37", "\\u1c78", "\\u1c79", "\\u1c7a",
   "\\u1c7b", "\\u1c7c", "\\u1c7d", "\\u1cd0", "\\u1cd1", "\\u1cd2",
   "\\u1cd4", "\\u1cd5", "\\u1cd6", "\\u1cd7", "\\u1cd8", "\\u1cd9",
   "\\u1cda", "\\u1cdb", "\\u1cdc", "\\u1cdd", "\\u1cde", "\\u1cdf",
   "\\u1ce0", "\\u1ce2", "\\u1ce3", "\\u1ce4", "\\u1ce5", "\\u1ce6",
   "\\u1ce7", "\\u1ce8", "\\u1ced", "\\u1cf4", "\\u1cf8", "\\u1cf9",
   "\\u1d2c", "\\u1d2d", "\\u1d2e", "\\u1d2f", "\\u1d30", "\\u1d31",
   "\\u1d32", "\\u1d33", "\\u1d34", "\\u1d35", "\\u1d36", "\\u1d37",
   "\\u1d38", "\\u1d39", "\\u1d3a", "\\u1d3b", "\\u1d3c", "\\u1d3d",
   "\\u1d3e", "\\u1d3f", "\\u1d40", "\\u1d41", "\\u1d42", "\\u1d43",
   "\\u1d44", "\\u1d45", "\\u1d46", "\\u1d47", "\\u1d48", "\\u1d49",
   "\\u1d4a", "\\u1d4b", "\\u1d4c", "\\u1d4d", "\\u1d4e", "\\u1d4f",
   "\\u1d50", "\\u1d51", "\\u1d52", "\\u1d53", "\\u1d54", "\\u1d55",
   "\\u1d56", "\\u1d57", "\\u1d58", "\\u1d59", "\\u1d5a", "\\u1d5b",
   "\\u1d5c", "\\u1d5d", "\\u1d5e", "\\u1d5f", "\\u1d60", "\\u1d61",
   "\\u1d62", "\\u1d63", "\\u1d64", "\\u1d65", "\\u1d66", "\\u1d67",
   "\\u1d68", "\\u1d69", "\\u1d6a", "\\u1d78", "\\u1d9b", "\\u1d9c",
   "\\u1d9d", "\\u1d9e", "\\u1d9f", "\\u1da0", "\\u1da1", "\\u1da2",
   "\\u1da3", "\\u1da4", "\\u1da5", "\\u1da6", "\\u1da7", "\\u1da8",
   "\\u1da9", "\\u1daa", "\\u1dab", "\\u1dac", "\\u1dad", "\\u1dae",
   "\\u1daf", "\\u1db0", "\\u1db1", "\\u1db2", "\\u1db3", "\\u1db4",
   "\\u1db5", "\\u1db6", "\\u1db7", "\\u1db8", "\\u1db9", "\\u1dba",
   "\\u1dbb", "\\u1dbc", "\\u1dbd", "\\u1dbe", "\\u1dbf", "\\u1dc0",
   "\\u1dc1", "\\u1dc2", "\\u1dc3", "\\u1dc4", "\\u1dc5", "\\u1dc6",
   "\\u1dc7", "\\u1dc8", "\\u1dc9", "\\u1dca", "\\u1dcb", "\\u1dcc",
   "\\u1dcd", "\\u1dce", "\\u1dcf", "\\u1dd0", "\\u1dd1", "\\u1dd2",
   "\\u1dd3", "\\u1dd4", "\\u1dd5", "\\u1dd6", "\\u1dd7", "\\u1dd8",
   "\\u1dd9", "\\u1dda", "\\u1ddb", "\\u1ddc", "\\u1ddd", "\\u1dde",
   "\\u1ddf", "\\u1de0", "\\u1de1", "\\u1de2", "\\u1de3", "\\u1de4",
   "\\u1de5", "\\u1de6", "\\u1de7", "\\u1de8", "\\u1de9", "\\u1dea",
   "\\u1deb", "\\u1dec", "\\u1ded", "\\u1dee", "\\u1def", "\\u1df0",
   "\\u1df1", "\\u1df2", "\\u1df3", "\\u1df4", "\\u1df5", "\\u1df6",
   "\\u1df7", "\\u1df8", "\\u1df9", "\\u1dfa", "\\u1dfb", "\\u1dfc",
   "\\u1dfd", "\\u1dfe", "\\u1dff", "\\u1fbd", "\\u1fbf", "\\u1fc0",
   "\\u1fc1", "\\u1fcd", "\\u1fce", "\\u1fcf", "\\u1fdd", "\\u1fde",
   "\\u1fdf", "\\u1fed", "\\u1fee", "\\u1fef", "\\u1ffd", "\\u1ffe",
   "\\u200b", "\\u200c", "\\u200d", "\\u200e", "\\u200f", "\\u2018",
   "\\u2019", "\\u2024", "\\u2027", "\\u202a", "\\u202b", "\\u202c",
   "\\u202d", "\\u202e", "\\u2060", "\\u2061", "\\u2062", "\\u2063",
   "\\u2064", "\\u2066", "\\u2067", "\\u2068", "\\u2069", "\\u206a",
   "\\u206b", "\\u206c", "\\u206d", "\\u206e", "\\u206f", "\\u2071",
   "\\u207f", "\\u2090", "\\u2091", "\\u2092", "\\u2093", "\\u2094",
   "\\u2095", "\\u2096", "\\u2097", "\\u2098", "\\u2099", "\\u209a",
   "\\u209b", "\\u209c", "\\u20d0", "\\u20d1", "\\u20d2", "\\u20d3",
   "\\u20d4", "\\u20d5", "\\u20d6", "\\u20d7", "\\u20d8", "\\u20d9",
   "\\u20da", "\\u20db", "\\u20dc", "\\u20dd", "\\u20de", "\\u20df",
   "\\u20e0", "\\u20e1", "\\u20e2", "\\u20e3", "\\u20e4", "\\u20e5",
   "\\u20e6", "\\u20e7", "\\u20e8", "\\u20e9", "\\u20ea", "\\u20eb",
   "\\u20ec", "\\u20ed", "\\u20ee", "\\u20ef", "\\u20f0", "\\u2c7c",
   "\\u2c7d", "\\u2cef", "\\u2cf0", "\\u2cf1", "\\u2d6f", "\\u2d7f",
   "\\u2de0", "\\u2de1", "\\u2de2", "\\u2de3", "\\u2de4", "\\u2de5",
   "\\u2de6", "\\u2de7", "\\u2de8", "\\u2de9", "\\u2dea", "\\u2deb",
   "\\u2dec", "\\u2ded", "\\u2dee", "\\u2def", "\\u2df0", "\\u2df1",
   "\\u2df2", "\\u2df3", "\\u2df4", "\\u2df5", "\\u2df6", "\\u2df7",
   "\\u2df8", "\\u2df9", "\\u2dfa", "\\u2dfb", "\\u2dfc", "\\u2dfd",
   "\\u2dfe", "\\u2dff", "\\u2e2f", "\\u3005", "\\u302a", "\\u302b",
   "\\u302c", "\\u302d", "\\u3031", "\\u3032", "\\u3033", "\\u3034",
   "\\u3035", "\\u303b", "\\u3099", "\\u309a", "\\u309b", "\\u309c",
   "\\u309d", "\\u309e", "\\u30fc", "\\u30fd", "\\u30fe", "\\ua015",
   "\\ua4f8", "\\ua4f9", "\\ua4fa", "\\ua4fb", "\\ua4fc", "\\ua4fd",
   "\\ua60c", "\\ua66f", "\\ua670", "\\ua671", "\\ua672", "\\ua674",
   "\\ua675", "\\ua676", "\\ua677", "\\ua678", "\\ua679", "\\ua67a",
   "\\ua67b", "\\ua67c", "\\ua67d", "\\ua67f", "\\ua69c", "\\ua69d",
   "\\ua69e", "\\ua69f", "\\ua6f0", "\\ua6f1", "\\ua700", "\\ua701",
   "\\ua702", "\\ua703", "\\ua704", "\\ua705", "\\ua706", "\\ua707",
   "\\ua708", "\\ua709", "\\ua70a", "\\ua70b", "\\ua70c", "\\ua70d",
   "\\ua70e", "\\ua70f", "\\ua710", "\\ua711", "\\ua712", "\\ua713",
   "\\ua714", "\\ua715", "\\ua716", "\\ua717", "\\ua718", "\\ua719",
   "\\ua71a", "\\ua71b", "\\ua71c", "\\ua71d", "\\ua71e", "\\ua71f",
   "\\ua720", "\\ua721", "\\ua770", "\\ua788", "\\ua789", "\\ua78a",
   "\\ua7f1", "\\ua7f2", "\\ua7f3", "\\ua7f4", "\\ua7f8", "\\ua7f9",
   "\\ua802", "\\ua806", "\\ua80b", "\\ua825", "\\ua826", "\\ua82c",
   "\\ua8c4", "\\ua8c5", "\\ua8e0", "\\ua8e1", "\\ua8e2", "\\ua8e3",
   "\\ua8e4", "\\ua8e5", "\\ua8e6", "\\ua8e7", "\\ua8e8", "\\ua8e9",
   "\\ua8ea", "\\ua8eb", "\\ua8ec", "\\ua8ed", "\\ua8ee", "\\ua8ef",
   "\\ua8f0", "\\ua8f1", "\\ua8ff", "\\ua926", "\\ua927", "\\ua928",
   "\\ua929", "\\ua92a", "\\ua92b", "\\ua92c", "\\ua92d", "\\ua947",
   "\\ua948", "\\ua949", "\\ua94a", "\\ua94b", "\\ua94c", "\\ua94d",
   "\\ua94e", "\\ua94f", "\\ua950", "\\ua951", "\\ua980", "\\ua981",
   "\\ua982", "\\ua9b3", "\\ua9b6", "\\ua9b7", "\\ua9b8", "\\ua9b9",
   "\\ua9bc", "\\ua9bd", "\\ua9cf", "\\ua9e5", "\\ua9e6", "\\uaa29",
   "\\uaa2a", "\\uaa2b", "\\uaa2c", "\\uaa2d", "\\uaa2e", "\\uaa31",
   "\\uaa32", "\\uaa35", "\\uaa36", "\\uaa43", "\\uaa4c", "\\uaa70",
   "\\uaa7c", "\\uaab0", "\\uaab2", "\\uaab3", "\\uaab4", "\\uaab7",
   "\\uaab8", "\\uaabe", "\\uaabf", "\\uaac1", "\\uaadd", "\\uaaec",
   "\\uaaed", "\\uaaf3", "\\uaaf4", "\\uaaf6", "\\uab5b", "\\uab5c",
   "\\uab5d", "\\uab5e", "\\uab5f", "\\uab69", "\\uab6a", "\\uab6b",
   "\\uabe5", "\\uabe8", "\\uabed", "\\ufb1e", "\\ufbb2", "\\ufbb3",
   "\\ufbb4", "\\ufbb5", "\\ufbb6", "\\ufbb7", "\\ufbb8", "\\ufbb9",
   "\\ufbba", "\\ufbbb", "\\ufbbc", "\\ufbbd", "\\ufbbe", "\\ufbbf",
   "\\ufbc0", "\\ufbc1", "\\ufbc2", "\\ufe00", "\\ufe01", "\\ufe02",
   "\\ufe03", "\\ufe04", "\\ufe05", "\\ufe06", "\\ufe07", "\\ufe08",
   "\\ufe09", "\\ufe0a", "\\ufe0b", "\\ufe0c", "\\ufe0d", "\\ufe0e",
   "\\ufe0f", "\\ufe13", "\\ufe20", "\\ufe21", "\\ufe22", "\\ufe23",
   "\\ufe24", "\\ufe25", "\\ufe26", "\\ufe27", "\\ufe28", "\\ufe29",
   "\\ufe2a", "\\ufe2b", "\\ufe2c", "\\ufe2d", "\\ufe2e", "\\ufe2f",
   "\\ufe52", "\\ufe55", "\\ufeff", "\\uff07", "\\uff0e", "\\uff1a",
   "\\uff3e", "\\uff40", "\\uff70", "\\uff9e", "\\uff9f", "\\uffe3",
   "\\ufff9", "\\ufffa", "\\ufffb"}

CaseIgnorableLow(high) ==
  IF high = "\\ud800"
  THEN
    {"\\uddfd", "\\udee0", "\\udf76", "\\udf77", "\\udf78", "\\udf79",
     "\\udf7a"}
  ELSE IF high = "\\ud801"
  THEN
    {"\\udf80", "\\udf81", "\\udf82", "\\udf83", "\\udf84", "\\udf85",
     "\\udf87", "\\udf88", "\\udf89", "\\udf8a", "\\udf8b", "\\udf8c",
     "\\udf8d", "\\udf8e", "\\udf8f", "\\udf90", "\\udf91", "\\udf92",
     "\\udf93", "\\udf94", "\\udf95", "\\udf96", "\\udf97", "\\udf98",
     "\\udf99", "\\udf9a", "\\udf9b", "\\udf9c", "\\udf9d", "\\udf9e",
     "\\udf9f", "\\udfa0", "\\udfa1", "\\udfa2", "\\udfa3", "\\udfa4",
     "\\udfa5", "\\udfa6", "\\udfa7", "\\udfa8", "\\udfa9", "\\udfaa",
     "\\udfab", "\\udfac", "\\udfad", "\\udfae", "\\udfaf", "\\udfb0",
     "\\udfb2", "\\udfb3", "\\udfb4", "\\udfb5", "\\udfb6", "\\udfb7",
     "\\udfb8", "\\udfb9", "\\udfba"}
  ELSE IF high = "\\ud802"
  THEN
    {"\\ude01", "\\ude02", "\\ude03", "\\ude05", "\\ude06", "\\ude0c",
     "\\ude0d", "\\ude0e", "\\ude0f", "\\ude38", "\\ude39", "\\ude3a",
     "\\ude3f", "\\udee5", "\\udee6"}
  ELSE IF high = "\\ud803"
  THEN
    {"\\udd24", "\\udd25", "\\udd26", "\\udd27", "\\udd4e", "\\udd69",
     "\\udd6a", "\\udd6b", "\\udd6c", "\\udd6d", "\\udd6f", "\\udeab",
     "\\udeac", "\\udec5", "\\udefa", "\\udefb", "\\udefc", "\\udefd",
     "\\udefe", "\\udeff", "\\udf46", "\\udf47", "\\udf48", "\\udf49",
     "\\udf4a", "\\udf4b", "\\udf4c", "\\udf4d", "\\udf4e", "\\udf4f",
     "\\udf50", "\\udf82", "\\udf83", "\\udf84", "\\udf85"}
  ELSE IF high = "\\ud804"
  THEN
    {"\\udc01", "\\udc38", "\\udc39", "\\udc3a", "\\udc3b", "\\udc3c",
     "\\udc3d", "\\udc3e", "\\udc3f", "\\udc40", "\\udc41", "\\udc42",
     "\\udc43", "\\udc44", "\\udc45", "\\udc46", "\\udc70", "\\udc73",
     "\\udc74", "\\udc7f", "\\udc80", "\\udc81", "\\udcb3", "\\udcb4",
     "\\udcb5", "\\udcb6", "\\udcb9", "\\udcba", "\\udcbd", "\\udcc2",
     "\\udccd", "\\udd00", "\\udd01", "\\udd02", "\\udd27", "\\udd28",
     "\\udd29", "\\udd2a", "\\udd2b", "\\udd2d", "\\udd2e", "\\udd2f",
     "\\udd30", "\\udd31", "\\udd32", "\\udd33", "\\udd34", "\\udd73",
     "\\udd80", "\\udd81", "\\uddb6", "\\uddb7", "\\uddb8", "\\uddb9",
     "\\uddba", "\\uddbb", "\\uddbc", "\\uddbd", "\\uddbe", "\\uddc9",
     "\\uddca", "\\uddcb", "\\uddcc", "\\uddcf", "\\ude2f", "\\ude30",
     "\\ude31", "\\ude34", "\\ude36", "\\ude37", "\\ude3e", "\\ude41",
     "\\udedf", "\\udee3", "\\udee4", "\\udee5", "\\udee6", "\\udee7",
     "\\udee8", "\\udee9", "\\udeea", "\\udf00", "\\udf01", "\\udf3b",
     "\\udf3c", "\\udf40", "\\udf66", "\\udf67", "\\udf68", "\\udf69",
     "\\udf6a", "\\udf6b", "\\udf6c", "\\udf70", "\\udf71", "\\udf72",
     "\\udf73", "\\udf74", "\\udfbb", "\\udfbc", "\\udfbd", "\\udfbe",
     "\\udfbf", "\\udfc0", "\\udfce", "\\udfd0", "\\udfd2", "\\udfe1",
     "\\udfe2"}
  ELSE IF high = "\\ud805"
  THEN
    {"\\udc38", "\\udc39", "\\udc3a", "\\udc3b", "\\udc3c", "\\udc3d",
     "\\udc3e", "\\udc3f", "\\udc42", "\\udc43", "\\udc44", "\\udc46",
     "\\udc5e", "\\udcb3", "\\udcb4", "\\udcb5", "\\udcb6", "\\udcb7",
     "\\udcb8", "\\udcba", "\\udcbf", "\\udcc0", "\\udcc2", "\\udcc3",
     "\\uddb2", "\\uddb3", "\\uddb4", "\\uddb5", "\\uddbc", "\\uddbd",
     "\\uddbf", "\\uddc0", "\\udddc", "\\udddd", "\\ude33", "\\ude34",
     "\\ude35", "\\ude36", "\\ude37", "\\ude38", "\\ude39", "\\ude3a",
     "\\ude3d", "\\ude3f", "\\ude40", "\\udeab", "\\udead", "\\udeb0",
     "\\udeb1", "\\udeb2", "\\udeb3", "\\udeb4", "\\udeb5", "\\udeb7",
     "\\udf1d", "\\udf1f", "\\udf22", "\\udf23", "\\udf24", "\\udf25",
     "\\udf27", "\\udf28", "\\udf29", "\\udf2a", "\\udf2b"}
  ELSE IF high = "\\ud806"
  THEN
    {"\\udc2f", "\\udc30", "\\udc31", "\\udc32", "\\udc33", "\\udc34",
     "\\udc35", "\\udc36", "\\udc37", "\\udc39", "\\udc3a", "\\udd3b",
     "\\udd3c", "\\udd3e", "\\udd43", "\\uddd4", "\\uddd5", "\\uddd6",
     "\\uddd7", "\\uddda", "\\udddb", "\\udde0", "\\ude01", "\\ude02",
     "\\ude03", "\\ude04", "\\ude05", "\\ude06", "\\ude07", "\\ude08",
     "\\ude09", "\\ude0a", "\\ude33", "\\ude34", "\\ude35", "\\ude36",
     "\\ude37", "\\ude38", "\\ude3b", "\\ude3c", "\\ude3d", "\\ude3e",
     "\\ude47", "\\ude51", "\\ude52", "\\ude53", "\\ude54", "\\ude55",
     "\\ude56", "\\ude59", "\\ude5a", "\\ude5b", "\\ude8a", "\\ude8b",
     "\\ude8c", "\\ude8d", "\\ude8e", "\\ude8f", "\\ude90", "\\ude91",
     "\\ude92", "\\ude93", "\\ude94", "\\ude95", "\\ude96", "\\ude98",
     "\\ude99", "\\udf60", "\\udf62", "\\udf63", "\\udf64", "\\udf66"}
  ELSE IF high = "\\ud807"
  THEN
    {"\\udc30", "\\udc31", "\\udc32", "\\udc33", "\\udc34", "\\udc35",
     "\\udc36", "\\udc38", "\\udc39", "\\udc3a", "\\udc3b", "\\udc3c",
     "\\udc3d", "\\udc3f", "\\udc92", "\\udc93", "\\udc94", "\\udc95",
     "\\udc96", "\\udc97", "\\udc98", "\\udc99", "\\udc9a", "\\udc9b",
     "\\udc9c", "\\udc9d", "\\udc9e", "\\udc9f", "\\udca0", "\\udca1",
     "\\udca2", "\\udca3", "\\udca4", "\\udca5", "\\udca6", "\\udca7",
     "\\udcaa", "\\udcab", "\\udcac", "\\udcad", "\\udcae", "\\udcaf",
     "\\udcb0", "\\udcb2", "\\udcb3", "\\udcb5", "\\udcb6", "\\udd31",
     "\\udd32", "\\udd33", "\\udd34", "\\udd35", "\\udd36", "\\udd3a",
     "\\udd3c", "\\udd3d", "\\udd3f", "\\udd40", "\\udd41", "\\udd42",
     "\\udd43", "\\udd44", "\\udd45", "\\udd47", "\\udd90", "\\udd91",
     "\\udd95", "\\udd97", "\\uddd9", "\\udef3", "\\udef4", "\\udf00",
     "\\udf01", "\\udf36", "\\udf37", "\\udf38", "\\udf39", "\\udf3a",
     "\\udf40", "\\udf42", "\\udf5a"}
  ELSE IF high = "\\ud80d"
  THEN
    {"\\udc30", "\\udc31", "\\udc32", "\\udc33", "\\udc34", "\\udc35",
     "\\udc36", "\\udc37", "\\udc38", "\\udc39", "\\udc3a", "\\udc3b",
     "\\udc3c", "\\udc3d", "\\udc3e", "\\udc3f", "\\udc40", "\\udc47",
     "\\udc48", "\\udc49", "\\udc4a", "\\udc4b", "\\udc4c", "\\udc4d",
     "\\udc4e", "\\udc4f", "\\udc50", "\\udc51", "\\udc52", "\\udc53",
     "\\udc54", "\\udc55"}
  ELSE IF high = "\\ud818"
  THEN
    {"\\udd1e", "\\udd1f", "\\udd20", "\\udd21", "\\udd22", "\\udd23",
     "\\udd24", "\\udd25", "\\udd26", "\\udd27", "\\udd28", "\\udd29",
     "\\udd2d", "\\udd2e", "\\udd2f"}
  ELSE IF high = "\\ud81a"
  THEN
    {"\\udef0", "\\udef1", "\\udef2", "\\udef3", "\\udef4", "\\udf30",
     "\\udf31", "\\udf32", "\\udf33", "\\udf34", "\\udf35", "\\udf36",
     "\\udf40", "\\udf41", "\\udf42", "\\udf43"}
  ELSE IF high = "\\ud81b"
  THEN
    {"\\udd40", "\\udd41", "\\udd42", "\\udd6b", "\\udd6c", "\\udf4f",
     "\\udf8f", "\\udf90", "\\udf91", "\\udf92", "\\udf93", "\\udf94",
     "\\udf95", "\\udf96", "\\udf97", "\\udf98", "\\udf99", "\\udf9a",
     "\\udf9b", "\\udf9c", "\\udf9d", "\\udf9e", "\\udf9f", "\\udfe0",
     "\\udfe1", "\\udfe3", "\\udfe4", "\\udff2", "\\udff3"}
  ELSE IF high = "\\ud82b"
  THEN
    {"\\udff0", "\\udff1", "\\udff2", "\\udff3", "\\udff5", "\\udff6",
     "\\udff7", "\\udff8", "\\udff9", "\\udffa", "\\udffb", "\\udffd",
     "\\udffe"}
  ELSE IF high = "\\ud82f"
  THEN
    {"\\udc9d", "\\udc9e", "\\udca0", "\\udca1", "\\udca2", "\\udca3"}
  ELSE IF high = "\\ud833"
  THEN
    {"\\udf00", "\\udf01", "\\udf02", "\\udf03", "\\udf04", "\\udf05",
     "\\udf06", "\\udf07", "\\udf08", "\\udf09", "\\udf0a", "\\udf0b",
     "\\udf0c", "\\udf0d", "\\udf0e", "\\udf0f", "\\udf10", "\\udf11",
     "\\udf12", "\\udf13", "\\udf14", "\\udf15", "\\udf16", "\\udf17",
     "\\udf18", "\\udf19", "\\udf1a", "\\udf1b", "\\udf1c", "\\udf1d",
     "\\udf1e", "\\udf1f", "\\udf20", "\\udf21", "\\udf22", "\\udf23",
     "\\udf24", "\\udf25", "\\udf26", "\\udf27", "\\udf28", "\\udf29",
     "\\udf2a", "\\udf2b", "\\udf2c", "\\udf2d", "\\udf30", "\\udf31",
     "\\udf32", "\\udf33", "\\udf34", "\\udf35", "\\udf36", "\\udf37",
     "\\udf38", "\\udf39", "\\udf3a", "\\udf3b", "\\udf3c", "\\udf3d",
     "\\udf3e", "\\udf3f", "\\udf40", "\\udf41", "\\udf42", "\\udf43",
     "\\udf44", "\\udf45", "\\udf46"}
  ELSE IF high = "\\ud834"
  THEN
    {"\\udd67", "\\udd68", "\\udd69", "\\udd73", "\\udd74", "\\udd75",
     "\\udd76", "\\udd77", "\\udd78", "\\udd79", "\\udd7a", "\\udd7b",
     "\\udd7c", "\\udd7d", "\\udd7e", "\\udd7f", "\\udd80", "\\udd81",
     "\\udd82", "\\udd85", "\\udd86", "\\udd87", "\\udd88", "\\udd89",
     "\\udd8a", "\\udd8b", "\\uddaa", "\\uddab", "\\uddac", "\\uddad",
     "\\ude42", "\\ude43", "\\ude44"}
  ELSE IF high = "\\ud836"
  THEN
    {"\\ude00", "\\ude01", "\\ude02", "\\ude03", "\\ude04", "\\ude05",
     "\\ude06", "\\ude07", "\\ude08", "\\ude09", "\\ude0a", "\\ude0b",
     "\\ude0c", "\\ude0d", "\\ude0e", "\\ude0f", "\\ude10", "\\ude11",
     "\\ude12", "\\ude13", "\\ude14", "\\ude15", "\\ude16", "\\ude17",
     "\\ude18", "\\ude19", "\\ude1a", "\\ude1b", "\\ude1c", "\\ude1d",
     "\\ude1e", "\\ude1f", "\\ude20", "\\ude21", "\\ude22", "\\ude23",
     "\\ude24", "\\ude25", "\\ude26", "\\ude27", "\\ude28", "\\ude29",
     "\\ude2a", "\\ude2b", "\\ude2c", "\\ude2d", "\\ude2e", "\\ude2f",
     "\\ude30", "\\ude31", "\\ude32", "\\ude33", "\\ude34", "\\ude35",
     "\\ude36", "\\ude3b", "\\ude3c", "\\ude3d", "\\ude3e", "\\ude3f",
     "\\ude40", "\\ude41", "\\ude42", "\\ude43", "\\ude44", "\\ude45",
     "\\ude46", "\\ude47", "\\ude48", "\\ude49", "\\ude4a", "\\ude4b",
     "\\ude4c", "\\ude4d", "\\ude4e", "\\ude4f", "\\ude50", "\\ude51",
     "\\ude52", "\\ude53", "\\ude54", "\\ude55", "\\ude56", "\\ude57",
     "\\ude58", "\\ude59", "\\ude5a", "\\ude5b", "\\ude5c", "\\ude5d",
     "\\ude5e", "\\ude5f", "\\ude60", "\\ude61", "\\ude62", "\\ude63",
     "\\ude64", "\\ude65", "\\ude66", "\\ude67", "\\ude68", "\\ude69",
     "\\ude6a", "\\ude6b", "\\ude6c", "\\ude75", "\\ude84", "\\ude9b",
     "\\ude9c", "\\ude9d", "\\ude9e", "\\ude9f", "\\udea1", "\\udea2",
     "\\udea3", "\\udea4", "\\udea5", "\\udea6", "\\udea7", "\\udea8",
     "\\udea9", "\\udeaa", "\\udeab", "\\udeac", "\\udead", "\\udeae",
     "\\udeaf"}
  ELSE IF high = "\\ud838"
  THEN
    {"\\udc00", "\\udc01", "\\udc02", "\\udc03", "\\udc04", "\\udc05",
     "\\udc06", "\\udc08", "\\udc09", "\\udc0a", "\\udc0b", "\\udc0c",
     "\\udc0d", "\\udc0e", "\\udc0f", "\\udc10", "\\udc11", "\\udc12",
     "\\udc13", "\\udc14", "\\udc15", "\\udc16", "\\udc17", "\\udc18",
     "\\udc1b", "\\udc1c", "\\udc1d", "\\udc1e", "\\udc1f", "\\udc20",
     "\\udc21", "\\udc23", "\\udc24", "\\udc26", "\\udc27", "\\udc28",
     "\\udc29", "\\udc2a", "\\udc30", "\\udc31", "\\udc32", "\\udc33",
     "\\udc34", "\\udc35", "\\udc36", "\\udc37", "\\udc38", "\\udc39",
     "\\udc3a", "\\udc3b", "\\udc3c", "\\udc3d", "\\udc3e", "\\udc3f",
     "\\udc40", "\\udc41", "\\udc42", "\\udc43", "\\udc44", "\\udc45",
     "\\udc46", "\\udc47", "\\udc48", "\\udc49", "\\udc4a", "\\udc4b",
     "\\udc4c", "\\udc4d", "\\udc4e", "\\udc4f", "\\udc50", "\\udc51",
     "\\udc52", "\\udc53", "\\udc54", "\\udc55", "\\udc56", "\\udc57",
     "\\udc58", "\\udc59", "\\udc5a", "\\udc5b", "\\udc5c", "\\udc5d",
     "\\udc5e", "\\udc5f", "\\udc60", "\\udc61", "\\udc62", "\\udc63",
     "\\udc64", "\\udc65", "\\udc66", "\\udc67", "\\udc68", "\\udc69",
     "\\udc6a", "\\udc6b", "\\udc6c", "\\udc6d", "\\udc8f", "\\udd30",
     "\\udd31", "\\udd32", "\\udd33", "\\udd34", "\\udd35", "\\udd36",
     "\\udd37", "\\udd38", "\\udd39", "\\udd3a", "\\udd3b", "\\udd3c",
     "\\udd3d", "\\udeae", "\\udeec", "\\udeed", "\\udeee", "\\udeef"}
  ELSE IF high = "\\ud839"
  THEN
    {"\\udceb", "\\udcec", "\\udced", "\\udcee", "\\udcef", "\\uddee",
     "\\uddef", "\\udee3", "\\udee6", "\\udeee", "\\udeef", "\\udef5",
     "\\udeff"}
  ELSE IF high = "\\ud83a"
  THEN
    {"\\udcd0", "\\udcd1", "\\udcd2", "\\udcd3", "\\udcd4", "\\udcd5",
     "\\udcd6", "\\udd44", "\\udd45", "\\udd46", "\\udd47", "\\udd48",
     "\\udd49", "\\udd4a", "\\udd4b"}
  ELSE IF high = "\\ud83c"
  THEN
    {"\\udffb", "\\udffc", "\\udffd", "\\udffe", "\\udfff"}
  ELSE IF high = "\\udb40"
  THEN
    {"\\udc01", "\\udc20", "\\udc21", "\\udc22", "\\udc23", "\\udc24",
     "\\udc25", "\\udc26", "\\udc27", "\\udc28", "\\udc29", "\\udc2a",
     "\\udc2b", "\\udc2c", "\\udc2d", "\\udc2e", "\\udc2f", "\\udc30",
     "\\udc31", "\\udc32", "\\udc33", "\\udc34", "\\udc35", "\\udc36",
     "\\udc37", "\\udc38", "\\udc39", "\\udc3a", "\\udc3b", "\\udc3c",
     "\\udc3d", "\\udc3e", "\\udc3f", "\\udc40", "\\udc41", "\\udc42",
     "\\udc43", "\\udc44", "\\udc45", "\\udc46", "\\udc47", "\\udc48",
     "\\udc49", "\\udc4a", "\\udc4b", "\\udc4c", "\\udc4d", "\\udc4e",
     "\\udc4f", "\\udc50", "\\udc51", "\\udc52", "\\udc53", "\\udc54",
     "\\udc55", "\\udc56", "\\udc57", "\\udc58", "\\udc59", "\\udc5a",
     "\\udc5b", "\\udc5c", "\\udc5d", "\\udc5e", "\\udc5f", "\\udc60",
     "\\udc61", "\\udc62", "\\udc63", "\\udc64", "\\udc65", "\\udc66",
     "\\udc67", "\\udc68", "\\udc69", "\\udc6a", "\\udc6b", "\\udc6c",
     "\\udc6d", "\\udc6e", "\\udc6f", "\\udc70", "\\udc71", "\\udc72",
     "\\udc73", "\\udc74", "\\udc75", "\\udc76", "\\udc77", "\\udc78",
     "\\udc79", "\\udc7a", "\\udc7b", "\\udc7c", "\\udc7d", "\\udc7e",
     "\\udc7f", "\\udd00", "\\udd01", "\\udd02", "\\udd03", "\\udd04",
     "\\udd05", "\\udd06", "\\udd07", "\\udd08", "\\udd09", "\\udd0a",
     "\\udd0b", "\\udd0c", "\\udd0d", "\\udd0e", "\\udd0f", "\\udd10",
     "\\udd11", "\\udd12", "\\udd13", "\\udd14", "\\udd15", "\\udd16",
     "\\udd17", "\\udd18", "\\udd19", "\\udd1a", "\\udd1b", "\\udd1c",
     "\\udd1d", "\\udd1e", "\\udd1f", "\\udd20", "\\udd21", "\\udd22",
     "\\udd23", "\\udd24", "\\udd25", "\\udd26", "\\udd27", "\\udd28",
     "\\udd29", "\\udd2a", "\\udd2b", "\\udd2c", "\\udd2d", "\\udd2e",
     "\\udd2f", "\\udd30", "\\udd31", "\\udd32", "\\udd33", "\\udd34",
     "\\udd35", "\\udd36", "\\udd37", "\\udd38", "\\udd39", "\\udd3a",
     "\\udd3b", "\\udd3c", "\\udd3d", "\\udd3e", "\\udd3f", "\\udd40",
     "\\udd41", "\\udd42", "\\udd43", "\\udd44", "\\udd45", "\\udd46",
     "\\udd47", "\\udd48", "\\udd49", "\\udd4a", "\\udd4b", "\\udd4c",
     "\\udd4d", "\\udd4e", "\\udd4f", "\\udd50", "\\udd51", "\\udd52",
     "\\udd53", "\\udd54", "\\udd55", "\\udd56", "\\udd57", "\\udd58",
     "\\udd59", "\\udd5a", "\\udd5b", "\\udd5c", "\\udd5d", "\\udd5e",
     "\\udd5f", "\\udd60", "\\udd61", "\\udd62", "\\udd63", "\\udd64",
     "\\udd65", "\\udd66", "\\udd67", "\\udd68", "\\udd69", "\\udd6a",
     "\\udd6b", "\\udd6c", "\\udd6d", "\\udd6e", "\\udd6f", "\\udd70",
     "\\udd71", "\\udd72", "\\udd73", "\\udd74", "\\udd75", "\\udd76",
     "\\udd77", "\\udd78", "\\udd79", "\\udd7a", "\\udd7b", "\\udd7c",
     "\\udd7d", "\\udd7e", "\\udd7f", "\\udd80", "\\udd81", "\\udd82",
     "\\udd83", "\\udd84", "\\udd85", "\\udd86", "\\udd87", "\\udd88",
     "\\udd89", "\\udd8a", "\\udd8b", "\\udd8c", "\\udd8d", "\\udd8e",
     "\\udd8f", "\\udd90", "\\udd91", "\\udd92", "\\udd93", "\\udd94",
     "\\udd95", "\\udd96", "\\udd97", "\\udd98", "\\udd99", "\\udd9a",
     "\\udd9b", "\\udd9c", "\\udd9d", "\\udd9e", "\\udd9f", "\\udda0",
     "\\udda1", "\\udda2", "\\udda3", "\\udda4", "\\udda5", "\\udda6",
     "\\udda7", "\\udda8", "\\udda9", "\\uddaa", "\\uddab", "\\uddac",
     "\\uddad", "\\uddae", "\\uddaf", "\\uddb0", "\\uddb1", "\\uddb2",
     "\\uddb3", "\\uddb4", "\\uddb5", "\\uddb6", "\\uddb7", "\\uddb8",
     "\\uddb9", "\\uddba", "\\uddbb", "\\uddbc", "\\uddbd", "\\uddbe",
     "\\uddbf", "\\uddc0", "\\uddc1", "\\uddc2", "\\uddc3", "\\uddc4",
     "\\uddc5", "\\uddc6", "\\uddc7", "\\uddc8", "\\uddc9", "\\uddca",
     "\\uddcb", "\\uddcc", "\\uddcd", "\\uddce", "\\uddcf", "\\uddd0",
     "\\uddd1", "\\uddd2", "\\uddd3", "\\uddd4", "\\uddd5", "\\uddd6",
     "\\uddd7", "\\uddd8", "\\uddd9", "\\uddda", "\\udddb", "\\udddc",
     "\\udddd", "\\uddde", "\\udddf", "\\udde0", "\\udde1", "\\udde2",
     "\\udde3", "\\udde4", "\\udde5", "\\udde6", "\\udde7", "\\udde8",
     "\\udde9", "\\uddea", "\\uddeb", "\\uddec", "\\udded", "\\uddee",
     "\\uddef"}
  ELSE {}

\* The characters that have a case (Cased) and are not looked through.
Cased ==
  {"A", "B", "C", "D", "E", "F", "G", "H", "I", "J", "K", "L", "M", "N",
   "O", "P", "Q", "R", "S", "T", "U", "V", "W", "X", "Y", "Z", "a", "b",
   "c", "d", "e", "f", "g", "h", "i", "j", "k", "l", "m", "n", "o", "p",
   "q", "r", "s", "t", "u", "v", "w", "x", "y", "z", "\\u00aa", "\\u00b5",
   "\\u00ba", "\\u00c0", "\\u00c1", "\\u00c2", "\\u00c3", "\\u00c4",
   "\\u00c5", "\\u00c6", "\\u00c7", "\\u00c8", "\\u00c9", "\\u00ca",
   "\\u00cb", "\\u00cc", "\\u00cd", "\\u00ce", "\\u00cf", "\\u00d0",
   "\\u00d1", "\\u00d2", "\\u00d3", "\\u00d4", "\\u00d5", "\\u00d6",
   "\\u00d8", "\\u00d9", "\\u00da", "\\u00db", "\\u00dc", "\\u00dd",
   "\\u00de", "\\u00df", "\\u00e0", "\\u00e1", "\\u00e2", "\\u00e3",
   "\\u00e4", "\\u00e5", "\\u00e6", "\\u00e7", "\\u00e8", "\\u00e9",
   "\\u00ea", "\\u00eb", "\\u00ec", "\\u00ed", "\\u00ee", "\\u00ef",
   "\\u00f0", "\\u00f1", "\\u00f2", "\\u00f3", "\\u00f4", "\\u00f5",
   "\\u00f6", "\\u00f8", "\\u00f9", "\\u00fa", "\\u00fb", "\\u00fc",
   "\\u00fd", "\\u00fe", "\\u00ff", "\\u0100", "\\u0101", "\\u0102",
   "\\u0103", "\\u0104", "\\u0105", "\\u0106", "\\u0107", "\\u0108",
   "\\u0109", "\\u010a", "\\u010b", "\\u010c", "\\u010d", "\\u010e",
   "\\u010f", "\\u0110", "\\u0111", "\\u0112", "\\u0113", "\\u0114",
   "\\u0115", "\\u0116", "\\u0117", "\\u0118", "\\u0119", "\\u011a",
   "\\u011b", "\\u011c", "\\u011d", "\\u011e", "\\u011f", "\\u0120",
   "\\u0121", "\\u0122", "\\u0123", "\\u0124", "\\u0125", "\\u0126",
   "\\u0127", "\\u0128", "\\u0129", "\\u012a", "\\u012b", "\\u012c",
   "\\u012d", "\\u012e", "\\u012f", "\\u0130", "\\u0131", "\\u0132",
   "\\u0133", "\\u0134", "\\u0135", "\\u0136", "\\u0137", "\\u0138",
   "\\u0139", "\\u013a", "\\u013b", "\\u013c", "\\u013d", "\\u013e",
   "\\u013f", "\\u0140", "\\u0141", "\\u0142", "\\u0143", "\\u0144",
   "\\u0145", "\\u0146", "\\u0147", "\\u0148", "\\u0149", "\\u014a",
   "\\u014b", "\\u014c", "\\u014d", "\\u014e", "\\u014f", "\\u0150",
   "\\u0151", "\\u0152", "\\u0153", "\\u0154", "\\u0155", "\\u0156",
   "\\u0157", "\\u0158", "\\u0159", "\\u015a", "\\u015b", "\\u015c",
   "\\u015d", "\\u015e", "\\u015f", "\\u0160", "\\u0161", "\\u0162",
   "\\u0163", "\\u0164", "\\u0165", "\\u0166", "\\u0167", "\\u0168",
   "\\u0169", "\\u016a", "\\u016b", "\\u016c", "\\u016d", "\\u016e",
   "\\u016f", "\\u0170", "\\u0171", "\\u0172", "\\u0173", "\\u0174",
   "\\u0175", "\\u0176", "\\u0177", "\\u0178", "\\u0179", "\\u017a",
   "\\u017b", "\\u017c", "\\u017d", "\\u017e", "\\u017f", "\\u0180",
   "\\u0181", "\\u0182", "\\u0183", "\\u0184", "\\u0185", "\\u0186",
   "\\u0187", "\\u0188", "\\u0189", "\\u018a", "\\u018b", "\\u018c",
   "\\u018d", "\\u018e", "\\u018f", "\\u0190", "\\u0191", "\\u0192",
   "\\u0193", "\\u0194", "\\u0195", "\\u0196", "\\u0197", "\\u0198",
   "\\u0199", "\\u019a", "\\u019b", "\\u019c", "\\u019d", "\\u019e",
   "\\u019f", "\\u01a0", "\\u01a1", "\\u01a2", "\\u01a3", "\\u01a4",
   "\\u01a5", "\\u01a6", "\\u01a7", "\\u01a8", "\\u01a9", "\\u01aa",
   "\\u01ab", "\\u01ac", "\\u01ad", "\\u01ae", "\\u01af", "\\u01b0",
   "\\u01b1", "\\u01b2", "\\u01b3", "\\u01b4", "\\u01b5", "\\u01b6",
   "\\u01b7", "\\u01b8", "\\u01b9", "\\u01ba", "\\u01bc", "\\u01bd",
   "\\u01be", "\\u01bf", "\\u01c4", "\\u01c5", "\\u01c6", "\\u01c7",
   "\\u01c8", "\\u01c9", "\\u01ca", "\\u01cb", "\\u01cc", "\\u01cd",
   "\\u01ce", "\\u01cf", "\\u01d0", "\\u01d1", "\\u01d2", "\\u01d3",
   "\\u01d4", "\\u01d5", "\\u01d6", "\\u01d7", "\\u01d8", "\\u01d9",
   "\\u01da", "\\u01db", "\\u01dc", "\\u01dd", "\\u01de", "\\u01df",
   "\\u01e0", "\\u01e1", "\\u01e2", "\\u01e3", "\\u01e4", "\\u01e5",
   "\\u01e6", "\\u01e7", "\\u01e8", "\\u01e9", "\\u01ea", "\\u01eb",
   "\\u01ec", "\\u01ed", "\\u01ee", "\\u01ef", "\\u01f0", "\\u01f1",
   "\\u01f2", "\\u01f3", "\\u01f4", "\\u01f5", "\\u01f6", "\\u01f7",
   "\\u01f8", "\\u01f9", "\\u01fa", "\\u01fb", "\\u01fc", "\\u01fd",
   "\\u01fe", "\\u01ff", "\\u0200", "\\u0201", "\\u0202", "\\u0203",
   "\\u0204", "\\u0205", "\\u0206", "\\u0207", "\\u0208", "\\u0209",
   "\\u020a", "\\u020b", "\\u020c", "\\u020d", "\\u020e", "\\u020f",
   "\\u0210", "\\u0211", "\\u0212", "\\u0213", "\\u0214", "\\u0215",
   "\\u0216", "\\u0217", "\\u0218", "\\u0219", "\\u021a", "\\u021b",
   "\\u021c", "\\u021d", "\\u021e", "\\u021f", "\\u0220", "\\u0221",
   "\\u0222", "\\u0223", "\\u0224", "\\u0225", "\\u0226", "\\u0227",
   "\\u0228", "\\u0229", "\\u022a", "\\u022b", "\\u022c", "\\u022d",
   "\\u022e", "\\u022f", "\\u0230", "\\u0231", "\\u0232", "\\u0233",
   "\\u0234", "\\u0235", "\\u0236", "\\u0237", "\\u0238", "\\u0239",
   "\\u023a", "\\u023b", "\\u023c", "\\u023d", "\\u023e", "\\u023f",
   "\\u0240", "\\u0241", "\\u0242", "\\u0243", "\\u0244", "\\u0245",
   "\\u0246", "\\u0247", "\\u0248", "\\u0249", "\\u024a", "\\u024b",
   "\\u024c", "\\u024d", "\\u024e", "\\u024f", "\\u0250", "\\u0251",
   "\\u0252", "\\u0253", "\\u0254", "\\u0255", "\\u0256", "\\u0257",
   "\\u0258", "\\u0259", "\\u025a", "\\u025b", "\\u025c", "\\u025d",
   "\\u025e", "\\u025f", "\\u0260", "\\u0261", "\\u0262", "\\u0263",
   "\\u0264", "\\u0265", "\\u0266", "\\u0267", "\\u0268", "\\u0269",
   "\\u026a", "\\u026b", "\\u026c", "\\u026d", "\\u026e", "\\u026f",
   "\\u0270", "\\u0271", "\\u0272", "\\u0273", "\\u0274", "\\u0275",
   "\\u0276", "\\u0277", "\\u0278", "\\u0279", "\\u027a", "\\u027b",
   "\\u027c", "\\u027d", "\\u027e", "\\u027f", "\\u0280", "\\u0281",
   "\\u0282", "\\u0283", "\\u0284", "\\u0285", "\\u0286", "\\u0287",
   "\\u0288", "\\u0289", "\\u028a", "\\u028b", "\\u028c", "\\u028d",
   "\\u028e", "\\u028f", "\\u0290", "\\u0291", "\\u0292", "\\u0293",
   "\\u0296", "\\u0297", "\\u0298", "\\u0299", "\\u029a", "\\u029b",
   "\\u029c", "\\u029d", "\\u029e", "\\u029f", "\\u02a0", "\\u02a1",
   "\\u02a2", "\\u02a3", "\\u02a4", "\\u02a5", "\\u02a6", "\\u02a7",
   "\\u02a8", "\\u02a9", "\\u02aa", "\\u02ab", "\\u02ac", "\\u02ad",
   "\\u02ae", "\\u02af", "\\u0370", "\\u0371", "\\u0372", "\\u0373",
   "\\u0376", "\\u0377", "\\u037b", "\\u037c", "\\u037d", "\\u037f",
   "\\u0386", "\\u0388", "\\u0389", "\\u038a", "\\u038c", "\\u038e",
   "\\u038f", "\\u0390", "\\u0391", "\\u0392", "\\u0393", "\\u0394",
   "\\u0395", "\\u0396", "\\u0397", "\\u0398", "\\u0399", "\\u039a",
   "\\u039b", "\\u039c", "\\u039d", "\\u039e", "\\u039f", "\\u03a0",
   "\\u03a1", "\\u03a3", "\\u03a4", "\\u03a5", "\\u03a6", "\\u03a7",
   "\\u03a8", "\\u03a9", "\\u03aa", "\\u03ab", "\\u03ac", "\\u03ad",
   "\\u03ae", "\\u03af", "\\u03b0", "\\u03b1", "\\u03b2", "\\u03b3",
   "\\u03b4", "\\u03b5", "\\u03b6", "\\u03b7", "\\u03b8", "\\u03b9",
   "\\u03ba", "\\u03bb", "\\u03bc", "\\u03bd", "\\u03be", "\\u03bf",
   "\\u03c0", "\\u03c1", "\\u03c2", "\\u03c3", "\\u03c4", "\\u03c5",
   "\\u03c6", "\\u03c7", "\\u03c8", "\\u03c9", "\\u03ca", "\\u03cb",
   "\\u03cc", "\\u03cd", "\\u03ce", "\\u03cf", "\\u03d0", "\\u03d1",
   "\\u03d2", "\\u03d3", "\\u03d4", "\\u03d5", "\\u03d6", "\\u03d7",
   "\\u03d8", "\\u03d9", "\\u03da", "\\u03db", "\\u03dc", "\\u03dd",
   "\\u03de", "\\u03df", "\\u03e0", "\\u03e1", "\\u03e2", "\\u03e3",
   "\\u03e4", "\\u03e5", "\\u03e6", "\\u03e7", "\\u03e8", "\\u03e9",
   "\\u03ea", "\\u03eb", "\\u03ec", "\\u03ed", "\\u03ee", "\\u03ef",
   "\\u03f0", "\\u03f1", "\\u03f2", "\\u03f3", "\\u03f4", "\\u03f5",
   "\\u03f7", "\\u03f8", "\\u03f9", "\\u03fa", "\\u03fb", "\\u03fc",
   "\\u03fd", "\\u03fe", "\\u03ff", "\\u0400", "\\u0401", "\\u0402",
   "\\u0403", "\\u0404", "\\u0405", "\\u0406", "\\u0407", "\\u0408",
   "\\u0409", "\\u040a", "\\u040b", "\\u040c", "\\u040d", "\\u040e",
   "\\u040f", "\\u0410", "\\u0411", "\\u0412", "\\u0413", "\\u0414",
   "\\u0415", "\\u0416", "\\u0417", "\\u0418", "\\u0419", "\\u041a",
   "\\u041b", "\\u041c", "\\u041d", "\\u041e", "\\u041f", "\\u0420",
   "\\u0421", "\\u0422", "\\u0423", "\\u0424", "\\u0425", "\\u0426",
   "\\u0427", "\\u0428", "\\u0429", "\\u042a", "\\u042b", "\\u042c",
   "\\u042d", "\\u042e", "\\u042f", "\\u0430", "\\u0431", "\\u0432",
   "\\u0433", "\\u0434", "\\u0435", "\\u0436", "\\u0437", "\\u0438",
   "\\u0439", "\\u043a", "\\u043b", "\\u043c", "\\u043d", "\\u043e",
   "\\u043f", "\\u0440", "\\u0441", "\\u0442", "\\u0443", "\\u0444",
   "\\u0445", "\\u0446", "\\u0447", "\\u0448", "\\u0449", "\\u044a",
   "\\u044b", "\\u044c", "\\u044d", "\\u044e", "\\u044f", "\\u0450",
   "\\u0451", "\\u0452", "\\u0453", "\\u0454", "\\u0455", "\\u0456",
   "\\u0457", "\\u0458", "\\u0459", "\\u045a", "\\u045b", "\\u045c",
   "\\u045d", "\\u045e", "\\u045f", "\\u0460", "\\u0461", "\\u0462",
   "\\u0463", "\\u0464", "\\u0465", "\\u0466", "\\u0467", "\\u0468",
   "\\u0469", "\\u046a", "\\u046b", "\\u046c", "\\u046d", "\\u046e",
   "\\u046f", "\\u0470", "\\u0471", "\\u0472", "\\u0473", "\\u0474",
   "\\u0475", "\\u0476", "\\u0477", "\\u0478", "\\u0479", "\\u047a",
   "\\u047b", "\\u047c", "\\u047d", "\\u047e", "\\u047f", "\\u0480",
   "\\u0481", "\\u048a", "\\u048b", "\\u048c", "\\u048d", "\\u048e",
   "\\u048f", "\\u0490", "\\u0491", "\\u0492", "\\u0493", "\\u0494",
   "\\u0495", "\\u0496", "\\u0497", "\\u0498", "\\u0499", "\\u049a",
   "\\u049b", "\\u049c", "\\u049d", "\\u049e", "\\u049f", "\\u04a0",
   "\\u04a1", "\\u04a2", "\\u04a3", "\\u04a4", "\\u04a5", "\\u04a6",
   "\\u04a7", "\\u04a8", "\\u04a9", "\\u04aa", "\\u04ab", "\\u04ac",
   "\\u04ad", "\\u04ae", "\\u04af", "\\u04b0", "\\u04b1", "\\u04b2",
   "\\u04b3", "\\u04b4", "\\u04b5", "\\u04b6", "\\u04b7", "\\u04b8",
   "\\u04b9", "\\u04ba", "\\u04bb", "\\u04bc", "\\u04bd", "\\u04be",
   "\\u04bf", "\\u04c0", "\\u04c1", "\\u04c2", "\\u04c3", "\\u04c4",
   "\\u04c5", "\\u04c6", "\\u04c7", "\\u04c8", "\\u04c9", "\\u04ca",
   "\\u04cb", "\\u04cc", "\\u04cd", "\\u04ce", "\\u04cf", "\\u04d0",
   "\\u04d1", "\\u04d2", "\\u04d3", "\\u04d4", "\\u04d5", "\\u04d6",
   "\\u04d7", "\\u04d8", "\\u04d9", "\\u04da", "\\u04db", "\\u04dc",
   "\\u04dd", "\\u04de", "\\u04df", "\\u04e0", "\\u04e1", "\\u04e2",
   "\\u04e3", "\\u04e4", "\\u04e5", "\\u04e6", "\\u04e7", "\\u04e8",
   "\\u04e9", "\\u04ea", "\\u04eb", "\\u04ec", "\\u04ed", "\\u04ee",
   "\\u04ef", "\\u04f0", "\\u04f1", "\\u04f2", "\\u04f3", "\\u04f4",
   "\\u04f5", "\\u04f6", "\\u04f7", "\\u04f8", "\\u04f9", "\\u04fa",
   "\\u04fb", "\\u04fc", "\\u04fd", "\\u04fe", "\\u04ff", "\\u0500",
   "\\u0501", "\\u0502", "\\u0503", "\\u0504", "\\u0505", "\\u0506",
   "\\u0507", "\\u0508", "\\u0509", "\\u050a", "\\u050b", "\\u050c",
   "\\u050d", "\\u050e", "\\u050f", "\\u0510", "\\u0511", "\\u0512",
   "\\u0513", "\\u0514", "\\u0515", "\\u0516", "\\u0517", "\\u0518",
   "\\u0519", "\\u051a", "\\u051b", "\\u051c", "\\u051d", "\\u051e",
   "\\u051f", "\\u0520", "\\u0521", "\\u0522", "\\u0523", "\\u0524",
   "\\u0525", "\\u0526", "\\u0527", "\\u0528", "\\u0529", "\\u052a",
   "\\u052b", "\\u052c", "\\u052d", "\\u052e", "\\u052f", "\\u0531",
   "\\u0532", "\\u0533", "\\u0534", "\\u0535", "\\u0536", "\\u0537",
   "\\u0538", "\\u0539", "\\u053a", "\\u053b", "\\u053c", "\\u053d",
   "\\u053e", "\\u053f", "\\u0540", "\\u0541", "\\u0542", "\\u0543",
   "\\u0544", "\\u0545", "\\u0546", "\\u0547", "\\u0548", "\\u0549",
   "\\u054a", "\\u054b", "\\u054c", "\\u054d", "\\u054e", "\\u054f",
   "\\u0550", "\\u0551", "\\u0552", "\\u0553", "\\u0554", "\\u0555",
   "\\u0556", "\\u0560", "\\u0561", "\\u0562", "\\u0563", "\\u0564",
   "\\u0565", "\\u0566", "\\u0567", "\\u0568", "\\u0569", "\\u056a",
   "\\u056b", "\\u056c", "\\u056d", "\\u056e", "\\u056f", "\\u0570",
   "\\u0571", "\\u0572", "\\u0573", "\\u0574", "\\u0575", "\\u0576",
   "\\u0577", "\\u0578", "\\u0579", "\\u057a", "\\u057b", "\\u057c",
   "\\u057d", "\\u057e", "\\u057f", "\\u0580", "\\u0581", "\\u0582",
   "\\u0583", "\\u0584", "\\u0585", "\\u0586", "\\u0587", "\\u0588",
   "\\u10a0", "\\u10a1", "\\u10a2", "\\u10a3", "\\u10a4", "\\u10a5",
   "\\u10a6", "\\u10a7", "\\u10a8", "\\u10a9", "\\u10aa", "\\u10ab",
   "\\u10ac", "\\u10ad", "\\u10ae", "\\u10af", "\\u10b0", "\\u10b1",
   "\\u10b2", "\\u10b3", "\\u10b4", "\\u10b5", "\\u10b6", "\\u10b7",
   "\\u10b8", "\\u10b9", "\\u10ba", "\\u10bb", "\\u10bc", "\\u10bd",
   "\\u10be", "\\u10bf", "\\u10c0", "\\u10c1", "\\u10c2", "\\u10c3",
   "\\u10c4", "\\u10c5", "\\u10c7", "\\u10cd", "\\u10d0", "\\u10d1",
   "\\u10d2", "\\u10d3", "\\u10d4", "\\u10d5", "\\u10d6", "\\u10d7",
   "\\u10d8", "\\u10d9", "\\u10da", "\\u10db", "\\u10dc", "\\u10dd",
   "\\u10de", "\\u10df", "\\u10e0", "\\u10e1", "\\u10e2", "\\u10e3",
   "\\u10e4", "\\u10e5", "\\u10e6", "\\u10e7", "\\u10e8", "\\u10e9",
   "\\u10ea", "\\u10eb", "\\u10ec", "\\u10ed", "\\u10ee", "\\u10ef",
   "\\u10f0", "\\u10f1", "\\u10f2", "\\u10f3", "\\u10f4", "\\u10f5",
   "\\u10f6", "\\u10f7", "\\u10f8", "\\u10f9", "\\u10fa", "\\u10fd",
   "\\u10fe", "\\u10ff", "\\u13a0", "\\u13a1", "\\u13a2", "\\u13a3",
   "\\u13a4", "\\u13a5", "\\u13a6", "\\u13a7", "\\u13a8", "\\u13a9",
   "\\u13aa", "\\u13ab", "\\u13ac", "\\u13ad", "\\u13ae", "\\u13af",
   "\\u13b0", "\\u13b1", "\\u13b2", "\\u13b3", "\\u13b4", "\\u13b5",
   "\\u13b6", "\\u13b7", "\\u13b8", "\\u13b9", "\\u13ba", "\\u13bb",
   "\\u13bc", "\\u13bd", "\\u13be", "\\u13bf", "\\u13c0", "\\u13c1",
   "\\u13c2", "\\u13c3", "\\u13c4", "\\u13c5", "\\u13c6", "\\u13c7",
   "\\u13c8", "\\u13c9", "\\u13ca", "\\u13cb", "\\u13cc", "\\u13cd",
   "\\u13ce", "\\u13cf", "\\u13d0", "\\u13d1", "\\u13d2", "\\u13d3",
   "\\u13d4", "\\u13d5", "\\u13d6", "\\u13d7", "\\u13d8", "\\u13d9",
   "\\u13da", "\\u13db", "\\u13dc", "\\u13dd", "\\u13de", "\\u13df",
   "\\u13e0", "\\u13e1", "\\u13e2", "\\u13e3", "\\u13e4", "\\u13e5",
   "\\u13e6", "\\u13e7", "\\u13e8", "\\u13e9", "\\u13ea", "\\u13eb",
   "\\u13ec", "\\u13ed", "\\u13ee", "\\u13ef", "\\u13f0", "\\u13f1",
   "\\u13f2", "\\u13f3", "\\u13f4", "\\u13f5", "\\u13f8", "\\u13f9",
   "\\u13fa", "\\u13fb", "\\u13fc", "\\u13fd", "\\u1c80", "\\u1c81",
   "\\u1c82", "\\u1c83", "\\u1c84", "\\u1c85", "\\u1c86", "\\u1c87",
   "\\u1c88", "\\u1c89", "\\u1c8a", "\\u1c90", "\\u1c91", "\\u1c92",
   "\\u1c93", "\\u1c94", "\\u1c95", "\\u1c96", "\\u1c97", "\\u1c98",
   "\\u1c99", "\\u1c9a", "\\u1c9b", "\\u1c9c", "\\u1c9d", "\\u1c9e",
   "\\u1c9f", "\\u1ca0", "\\u1ca1", "\\u1ca2", "\\u1ca3", "\\u1ca4",
   "\\u1ca5", "\\u1ca6", "\\u1ca7", "\\u1ca8", "\\u1ca9", "\\u1caa",
   "\\u1cab", "\\u1cac", "\\u1cad", "\\u1cae", "\\u1caf", "\\u1cb0",
   "\\u1cb1", "\\u1cb2", "\\u1cb3", "\\u1cb4", "\\u1cb5", "\\u1cb6",
   "\\u1cb7", "\\u1cb8", "\\u1cb9", "\\u1cba", "\\u1cbd", "\\u1cbe",
   "\\u1cbf", "\\u1d00", "\\u1d01", "\\u1d02", "\\u1d03", "\\u1d04",
   "\\u1d05", "\\u1d06", "\\u1d07", "\\u1d08", "\\u1d09", "\\u1d0a",
   "\\u1d0b", "\\u1d0c", "\\u1d0d", "\\u1d0e", "\\u1d0f", "\\u1d10",
   "\\u1d11", "\\u1d12", "\\u1d13", "\\u1d14", "\\u1d15", "\\u1d16",
   "\\u1d17", "\\u1d18", "\\u1d19", "\\u1d1a", "\\u1d1b", "\\u1d1c",
   "\\u1d1d", "\\u1d1e", "\\u1d1f", "\\u1d20", "\\u1d21", "\\u1d22",
   "\\u1d23", "\\u1d24", "\\u1d25", "\\u1d26", "\\u1d27", "\\u1d28",
   "\\u1d29", "\\u1d2a", "\\u1d2b", "\\u1d6b", "\\u1d6c", "\\u1d6d",
   "\\u1d6e", "\\u1d6f", "\\u1d70", "\\u1d71", "\\u1d72", "\\u1d73",
   "\\u1d74", "\\u1d75", "\\u1d76", "\\u1d77", "\\u1d79", "\\u1d7a",
   "\\u1d7b", "\\u1d7c", "\\u1d7d", "\\u1d7e", "\\u1d7f", "\\u1d80",
   "\\u1d81", "\\u1d82", "\\u1d83", "\\u1d84", "\\u1d85", "\\u1d86",
   "\\u1d87", "\\u1d88", "\\u1d89", "\\u1d8a", "\\u1d8b", "\\u1d8c",
   "\\u1d8d", "\\u1d8e", "\\u1d8f", "\\u1d90", "\\u1d91", "\\u1d92",
   "\\u1d93", "\\u1d94", "\\u1d95", "\\u1d96", "\\u1d97", "\\u1d98",
   "\\u1d99", "\\u1d9a", "\\u1e00", "\\u1e01", "\\u1e02", "\\u1e03",
   "\\u1e04", "\\u1e05", "\\u1e06", "\\u1e07", "\\u1e08", "\\u1e09",
   "\\u1e0a", "\\u1e0b", "\\u1e0c", "\\u1e0d", "\\u1e0e", "\\u1e0f",
   "\\u1e10", "\\u1e11", "\\u1e12", "\\u1e13", "\\u1e14", "\\u1e15",
   "\\u1e16", "\\u1e17", "\\u1e18", "\\u1e19", "\\u1e1a", "\\u1e1b",
   "\\u1e1c", "\\u1e1d", "\\u1e1e", "\\u1e1f", "\\u1e20", "\\u1e21",
   "\\u1e22", "\\u1e23", "\\u1e24", "\\u1e25", "\\u1e26", "\\u1e27",
   "\\u1e28", "\\u1e29", "\\u1e2a", "\\u1e2b", "\\u1e2c", "\\u1e2d",
   "\\u1e2e", "\\u1e2f", "\\u1e30", "\\u1e31", "\\u1e32", "\\u1e33",
   "\\u1e34", "\\u1e35", "\\u1e36", "\\u1e37", "\\u1e38", "\\u1e39",
   "\\u1e3a", "\\u1e3b", "\\u1e3c", "\\u1e3d", "\\u1e3e", "\\u1e3f",
   "\\u1e40", "\\u1e41", "\\u1e42", "\\u1e43", "\\u1e44", "\\u1e45",
   "\\u1e46", "\\u1e47", "\\u1e48", "\\u1e49", "\\u1e4a", "\\u1e4b",
   "\\u1e4c", "\\u1e4d", "\\u1e4e", "\\u1e4f", "\\u1e50", "\\u1e51",
   "\\u1e52", "\\u1e53", "\\u1e54", "\\u1e55", "\\u1e56", "\\u1e57",
   "\\u1e58", "\\u1e59", "\\u1e5a", "\\u1e5b", "\\u1e5c", "\\u1e5d",
   "\\u1e5e", "\\u1e5f", "\\u1e60", "\\u1e61", "\\u1e62", "\\u1e63",
   "\\u1e64", "\\u1e65", "\\u1e66", "\\u1e67", "\\u1e68", "\\u1e69",
   "\\u1e6a", "\\u1e6b", "\\u1e6c", "\\u1e6d", "\\u1e6e", "\\u1e6f",
   "\\u1e70", "\\u1e71", "\\u1e72", "\\u1e73", "\\u1e74", "\\u1e75",
   "\\u1e76", "\\u1e77", "\\u1e78", "\\u1e79", "\\u1e7a", "\\u1e7b",
   "\\u1e7c", "\\u1e7d", "\\u1e7e", "\\u1e7f", "\\u1e80", "\\u1e81",
   "\\u1e82", "\\u1e83", "\\u1e84", "\\u1e85", "\\u1e86", "\\u1e87",
   "\\u1e88", "\\u1e89", "\\u1e8a", "\\u1e8b", "\\u1e8c", "\\u1e8d",
   "\\u1e8e", "\\u1e8f", "\\u1e90", "\\u1e91", "\\u1e92", "\\u1e93",
   "\\u1e94", "\\u1e95", "\\u1e96", "\\u1e97", "\\u1e98", "\\u1e99",
   "\\u1e9a", "\\u1e9b", "\\u1e9c", "\\u1e9d", "\\u1e9e", "\\u1e9f",
   "\\u1ea0", "\\u1ea1", "\\u1ea2", "\\u1ea3", "\\u1ea4", "\\u1ea5",
   "\\u1ea6", "\\u1ea7", "\\u1ea8", "\\u1ea9", "\\u1eaa", "\\u1eab",
   "\\u1eac", "\\u1ead", "\\u1eae", "\\u1eaf", "\\u1eb0", "\\u1eb1",
   "\\u1eb2", "\\u1eb3", "\\u1eb4", "\\u1eb5", "\\u1eb6", "\\u1eb7",
   "\\u1eb8", "\\u1eb9", "\\u1eba", "\\u1ebb", "\\u1ebc", "\\u1ebd",
   "\\u1ebe", "\\u1ebf", "\\u1ec0", "\\u1ec1", "\\u1ec2", "\\u1ec3",
   "\\u1ec4", "\\u1ec5", "\\u1ec6", "\\u1ec7", "\\u1ec8", "\\u1ec9",
   "\\u1eca", "\\u1ecb", "\\u1ecc", "\\u1ecd", "\\u1ece", "\\u1ecf",
   "\\u1ed0", "\\u1ed1", "\\u1ed2", "\\u1ed3", "\\u1ed4", "\\u1ed5",
   "\\u1ed6", "\\u1ed7", "\\u1ed8", "\\u1ed9", "\\u1eda", "\\u1edb",
   "\\u1edc", "\\u1edd", "\\u1ede", "\\u1edf", "\\u1ee0", "\\u1ee1",
   "\\u1ee2", "\\u1ee3", "\\u1ee4", "\\u1ee5", "\\u1ee6", "\\u1ee7",
   "\\u1ee8", "\\u1ee9", "\\u1eea", "\\u1eeb", "\\u1eec", "\\u1eed",
   "\\u1eee", "\\u1eef", "\\u1ef0", "\\u1ef1", "\\u1ef2", "\\u1ef3",
   "\\u1ef4", "\\u1ef5", "\\u1ef6", "\\u1ef7", "\\u1ef8", "\\u1ef9",
   "\\u1efa", "\\u1efb", "\\u1efc", "\\u1efd", "\\u1efe", "\\u1eff",
   "\\u1f00", "\\u1f01", "\\u1f02", "\\u1f03", "\\u1f04", "\\u1f05",
   "\\u1f06", "\\u1f07", "\\u1f08", "\\u1f09", "\\u1f0a", "\\u1f0b",
   "\\u1f0c", "\\u1f0d", "\\u1f0e", "\\u1f0f", "\\u1f10", "\\u1f11",
   "\\u1f12", "\\u1f13", "\\u1f14", "\\u1f15", "\\u1f18", "\\u1f19",
   "\\u1f1a", "\\u1f1b", "\\u1f1c", "\\u1f1d", "\\u1f20", "\\u1f21",
   "\\u1f22", "\\u1f23", "\\u1f24", "\\u1f25", "\\u1f26", "\\u1f27",
   "\\u1f28", "\\u1f29", "\\u1f2a", "\\u1f2b", "\\u1f2c", "\\u1f2d",
   "\\u1f2e", "\\u1f2f", "\\u1f30", "\\u1f31", "\\u1f32", "\\u1f33",
   "\\u1f34", "\\u1f35", "\\u1f36", "\\u1f37", "\\u1f38", "\\u1f39",
   "\\u1f3a", "\\u1f3b", "\\u1f3c", "\\u1f3d", "\\u1f3e", "\\u1f3f",
   "\\u1f40", "\\u1f41", "\\u1f42", "\\u1f43", "\\u1f44", "\\u1f45",
   "\\u1f48", "\\u1f49", "\\u1f4a", "\\u1f4b", "\\u1f4c", "\\u1f4d",
   "\\u1f50", "\\u1f51", "\\u1f52", "\\u1f53", "\\u1f54", "\\u1f55",
   "\\u1f56", "\\u1f57", "\\u1f59", "\\u1f5b", "\\u1f5d", "\\u1f5f",
   "\\u1f60", "\\u1f61", "\\u1f62", "\\u1f63", "\\u1f64", "\\u1f65",
   "\\u1f66", "\\u1f67", "\\u1f68", "\\u1f69", "\\u1f6a", "\\u1f6b",
   "\\u1f6c", "\\u1f6d", "\\u1f6e", "\\u1f6f", "\\u1f70", "\\u1f71",
   "\\u1f72", "\\u1f73", "\\u1f74", "\\u1f75", "\\u1f76", "\\u1f77",
   "\\u1f78", "\\u1f79", "\\u1f7a", "\\u1f7b", "\\u1f7c", "\\u1f7d",
   "\\u1f80", "\\u1f81", "\\u1f82", "\\u1f83", "\\u1f84", "\\u1f85",
   "\\u1f86", "\\u1f87", "\\u1f88", "\\u1f89", "\\u1f8a", "\\u1f8b",
   "\\u1f8c", "\\u1f8d", "\\u1f8e", "\\u1f8f", "\\u1f90", "\\u1f91",
   "\\u1f92", "\\u1f93", "\\u1f94", "\\u1f95", "\\u1f96", "\\u1f97",
   "\\u1f98", "\\u1f99", "\\u1f9a", "\\u1f9b", "\\u1f9c", "\\u1f9d",
   "\\u1f9e", "\\u1f9f", "\\u1fa0", "\\u1fa1", "\\u1fa2", "\\u1fa3",
   "\\u1fa4", "\\u1fa5", "\\u1fa6", "\\u1fa7", "\\u1fa8", "\\u1fa9",
   "\\u1faa", "\\u1fab", "\\u1fac", "\\u1fad", "\\u1fae", "\\u1faf",
   "\\u1fb0", "\\u1fb1", "\\u1fb2", "\\u1fb3", "\\u1fb4", "\\u1fb6",
   "\\u1fb7", "\\u1fb8", "\\u1fb9", "\\u1fba", "\\u1fbb", "\\u1fbc",
   "\\u1fbe", "\\u1fc2", "\\u1fc3", "\\u1fc4", "\\u1fc6", "\\u1fc7",
   "\\u1fc8", "\\u1fc9", "\\u1fca", "\\u1fcb", "\\u1fcc", "\\u1fd0",
   "\\u1fd1", "\\u1fd2", "\\u1fd3", "\\u1fd6", "\\u1fd7", "\\u1fd8",
   "\\u1fd9", "\\u1fda", "\\u1fdb", "\\u1fe0", "\\u1fe1", "\\u1fe2",
   "\\u1fe3", "\\u1fe4", "\\u1fe5", "\\u1fe6", "\\u1fe7", "\\u1fe8",
   "\\u1fe9", "\\u1fea", "\\u1feb", "\\u1fec", "\\u1ff2", "\\u1ff3",
   "\\u1ff4", "\\u1ff6", "\\u1ff7", "\\u1ff8", "\\u1ff9", "\\u1ffa",
   "\\u1ffb", "\\u1ffc", "\\u2102", "\\u2107", "\\u210a", "\\u210b",
   "\\u210c", "\\u210d", "\\u210e", "\\u210f", "\\u2110", "\\u2111",
   "\\u2112", "\\u2113", "\\u2115", "\\u2119", "\\u211a", "\\u211b",
   "\\u211c", "\\u211d", "\\u2124", "\\u2126", "\\u2128", "\\u212a",
   "\\u212b", "\\u212c", "\\u212d", "\\u212f", "\\u2130", "\\u2131",
   "\\u2132", "\\u2133", "\\u2134", "\\u2139", "\\u213c", "\\u213d",
   "\\u213e", "\\u213f", "\\u2145", "\\u2146", "\\u2147", "\\u2148",
   "\\u2149", "\\u214e", "\\u2160", "\\u2161", "\\u2162", "\\u2163",
   "\\u2164", "\\u2165", "\\u2166", "\\u2167", "\\u2168", "\\u2169",
   "\\u216a", "\\u216b", "\\u216c", "\\u216d", "\\u216e", "\\u216f",
   "\\u2170", "\\u2171", "\\u2172", "\\u2173", "\\u2174", "\\u2175",
   "\\u2176", "\\u2177", "\\u2178", "\\u2179", "\\u217a", "\\u217b",
   "\\u217c", "\\u217d", "\\u217e", "\\u217f", "\\u2183", "\\u2184",
   "\\u24b6", "\\u24b7", "\\u24b8", "\\u24b9", "\\u24ba", "\\u24bb",
   "\\u24bc", "\\u24bd", "\\u24be", "\\u24bf", "\\u24c0", "\\u24c1",
   "\\u24c2", "\\u24c3", "\\u24c4", "\\u24c5", "\\u24c6", "\\u24c7",
   "\\u24c8", "\\u24c9", "\\u24ca", "\\u24cb", "\\u24cc", "\\u24cd",
   "\\u24ce", "\\u24cf", "\\u24d0", "\\u24d1", "\\u24d2", "\\u24d3",
   "\\u24d4", "\\u24d5", "\\u24d6", "\\u24d7", "\\u24d8", "\\u24d9",
   "\\u24da", "\\u24db", "\\u24dc", "\\u24dd", "\\u24de", "\\u24df",
   "\\u24e0", "\\u24e1", "\\u24e2", "\\u24e3", "\\u24e4", "\\u24e5",
   "\\u24e6", "\\u24e7", "\\u24e8", "\\u24e9", "\\u2c00", "\\u2c01",
   "\\u2c02", "\\u2c03", "\\u2c04", "\\u2c05", "\\u2c06", "\\u2c07",
   "\\u2c08", "\\u2c09", "\\u2c0a", "\\u2c0b", "\\u2c0c", "\\u2c0d",
   "\\u2c0e", "\\u2c0f", "\\u2c10", "\\u2c11", "\\u2c12", "\\u2c13",
   "\\u2c14", "\\u2c15", "\\u2c16", "\\u2c17", "\\u2c18", "\\u2c19",
   "\\u2c1a", "\\u2c1b", "\\u2c1c", "\\u2c1d", "\\u2c1e", "\\u2c1f",
   "\\u2c20", "\\u2c21", "\\u2c22", "\\u2c23", "\\u2c24", "\\u2c25",
   "\\u2c26", "\\u2c27", "\\u2c28", "\\u2c29", "\\u2c2a", "\\u2c2b",
   "\\u2c2c", "\\u2c2d", "\\u2c2e", "\\u2c2f", "\\u2c30", "\\u2c31",
   "\\u2c32", "\\u2c33", "\\u2c34", "\\u2c35", "\\u2c36", "\\u2c37",
   "\\u2c38", "\\u2c39", "\\u2c3a", "\\u2c3b", "\\u2c3c", "\\u2c3d",
   "\\u2c3e", "\\u2c3f", "\\u2c40", "\\u2c41", "\\u2c42", "\\u2c43",
   "\\u2c44", "\\u2c45", "\\u2c46", "\\u2c47", "\\u2c48", "\\u2c49",
   "\\u2c4a", "\\u2c4b", "\\u2c4c", "\\u2c4d", "\\u2c4e", "\\u2c4f",
   "\\u2c50", "\\u2c51", "\\u2c52", "\\u2c53", "\\u2c54", "\\u2c55",
   "\\u2c56", "\\u2c57", "\\u2c58", "\\u2c59", "\\u2c5a", "\\u2c5b",
   "\\u2c5c", "\\u2c5d", "\\u2c5e", "\\u2c5f", "\\u2c60", "\\u2c61",
   "\\u2c62", "\\u2c63", "\\u2c64", "\\u2c65", "\\u2c66", "\\u2c67",
   "\\u2c68", "\\u2c69", "\\u2c6a", "\\u2c6b", "\\u2c6c", "\\u2c6d",
   "\\u2c6e", "\\u2c6f", "\\u2c70", "\\u2c71", "\\u2c72", "\\u2c73",
   "\\u2c74", "\\u2c75", "\\u2c76", "\\u2c77", "\\u2c78", "\\u2c79",
   "\\u2c7a", "\\u2c7b", "\\u2c7e", "\\u2c7f", "\\u2c80", "\\u2c81",
   "\\u2c82", "\\u2c83", "\\u2c84", "\\u2c85", "\\u2c86", "\\u2c87",
   "\\u2c88", "\\u2c89", "\\u2c8a", "\\u2c8b", "\\u2c8c", "\\u2c8d",
   "\\u2c8e", "\\u2c8f", "\\u2c90", "\\u2c91", "\\u2c92", "\\u2c93",
   "\\u2c94", "\\u2c95", "\\u2c96", "\\u2c97", "\\u2c98", "\\u2c99",
   "\\u2c9a", "\\u2c9b", "\\u2c9c", "\\u2c9d", "\\u2c9e", "\\u2c9f",
   "\\u2ca0", "\\u2ca1", "\\u2ca2", "\\u2ca3", "\\u2ca4", "\\u2ca5",
   "\\u2ca6", "\\u2ca7", "\\u2ca8", "\\u2ca9", "\\u2caa", "\\u2cab",
   "\\u2cac", "\\u2cad", "\\u2cae", "\\u2caf", "\\u2cb0", "\\u2cb1",
   "\\u2cb2", "\\u2cb3", "\\u2cb4", "\\u2cb5", "\\u2cb6", "\\u2cb7",
   "\\u2cb8", "\\u2cb9", "\\u2cba", "\\u2cbb", "\\u2cbc", "\\u2cbd",
   "\\u2cbe", "\\u2cbf", "\\u2cc0", "\\u2cc1", "\\u2cc2", "\\u2cc3",
   "\\u2cc4", "\\u2cc5", "\\u2cc6", "\\u2cc7", "\\u2cc8", "\\u2cc9",
   "\\u2cca", "\\u2ccb", "\\u2ccc", "\\u2ccd", "\\u2cce", "\\u2ccf",
   "\\u2cd0", "\\u2cd1", "\\u2cd2", "\\u2cd3", "\\u2cd4", "\\u2cd5",
   "\\u2cd6", "\\u2cd7", "\\u2cd8", "\\u2cd9", "\\u2cda", "\\u2cdb",
   "\\u2cdc", "\\u2cdd", "\\u2cde", "\\u2cdf", "\\u2ce0", "\\u2ce1",
   "\\u2ce2", "\\u2ce3", "\\u2ce4", "\\u2ceb", "\\u2cec", "\\u2ced",
   "\\u2cee", "\\u2cf2", "\\u2cf3", "\\u2d00", "\\u2d01", "\\u2d02",
   "\\u2d03", "\\u2d04", "\\u2d05", "\\u2d06", "\\u2d07", "\\u2d08",
   "\\u2d09", "\\u2d0a", "\\u2d0b", "\\u2d0c", "\\u2d0d", "\\u2d0e",
   "\\u2d0f", "\\u2d10", "\\u2d11", "\\u2d12", "\\u2d13", "\\u2d14",
   "\\u2d15", "\\u2d16", "\\u2d17", "\\u2d18", "\\u2d19", "\\u2d1a",
   "\\u2d1b", "\\u2d1c", "\\u2d1d", "\\u2d1e", "\\u2d1f", "\\u2d20",
   "\\u2d21", "\\u2d22", "\\u2d23", "\\u2d24", "\\u2d25", "\\u2d27",
   "\\u2d2d", "\\ua640", "\\ua641", "\\ua642", "\\ua643", "\\ua644",
   "\\ua645", "\\ua646", "\\ua647", "\\ua648", "\\ua649", "\\ua64a",
   "\\ua64b", "\\ua64c", "\\ua64d", "\\ua64e", "\\ua64f", "\\ua650",
   "\\ua651", "\\ua652", "\\ua653", "\\ua654", "\\ua655", "\\ua656",
   "\\ua657", "\\ua658", "\\ua659", "\\ua65a", "\\ua65b", "\\ua65c",
   "\\ua65d", "\\ua65e", "\\ua65f", "\\ua660", "\\ua661", "\\ua662",
   "\\ua663", "\\ua664", "\\ua665", "\\ua666", "\\ua667", "\\ua668",
   "\\ua669", "\\ua66a", "\\ua66b", "\\ua66c", "\\ua66d", "\\ua680",
   "\\ua681", "\\ua682", "\\ua683", "\\ua684", "\\ua685", "\\ua686",
   "\\ua687", "\\ua688", "\\ua689", "\\ua68a", "\\ua68b", "\\ua68c",
   "\\ua68d", "\\ua68e", "\\ua68f", "\\ua690", "\\ua691", "\\ua692",
   "\\ua693", "\\ua694", "\\ua695", "\\ua696", "\\ua697", "\\ua698",
   "\\ua699", "\\ua69a", "\\ua69b", "\\ua722", "\\ua723", "\\ua724",
   "\\ua725", "\\ua726", "\\ua727", "\\ua728", "\\ua729", "\\ua72a",
   "\\ua72b", "\\ua72c", "\\ua72d", "\\ua72e", "\\ua72f", "\\ua730",
   "\\ua731", "\\ua732", "\\ua733", "\\ua734", "\\ua735", "\\ua736",
   "\\ua737", "\\ua738", "\\ua739", "\\ua73a", "\\ua73b", "\\ua73c",
   "\\ua73d", "\\ua73e", "\\ua73f", "\\ua740", "\\ua741", "\\ua742",
   "\\ua743", "\\ua744", "\\ua745", "\\ua746", "\\ua747", "\\ua748",
   "\\ua749", "\\ua74a", "\\ua74b", "\\ua74c", "\\ua74d", "\\ua74e",
   "\\ua74f", "\\ua750", "\\ua751", "\\ua752", "\\ua753", "\\ua754",
   "\\ua755", "\\ua756", "\\ua757", "\\ua758", "\\ua759", "\\ua75a",
   "\\ua75b", "\\ua75c", "\\ua75d", "\\ua75e", "\\ua75f", "\\ua760",
   "\\ua761", "\\ua762", "\\ua763", "\\ua764", "\\ua765", "\\ua766",
   "\\ua767", "\\ua768", "\\ua769", "\\ua76a", "\\ua76b", "\\ua76c",
   "\\ua76d", "\\ua76e", "\\ua76f", "\\ua771", "\\ua772", "\\ua773",
   "\\ua774", "\\ua775", "\\ua776", "\\ua777", "\\ua778", "\\ua779",
   "\\ua77a", "\\ua77b", "\\ua77c", "\\ua77d", "\\ua77e", "\\ua77f",
   "\\ua780", "\\ua781", "\\ua782", "\\ua783", "\\ua784", "\\ua785",
   "\\ua786", "\\ua787", "\\ua78b", "\\ua78c", "\\ua78d", "\\ua78e",
   "\\ua790", "\\ua791", "\\ua792", "\\ua793", "\\ua794", "\\ua795",
   "\\ua796", "\\ua797", "\\ua798", "\\ua799", "\\ua79a", "\\ua79b",
   "\\ua79c", "\\ua79d", "\\ua79e", "\\ua79f", "\\ua7a0", "\\ua7a1",
   "\\ua7a2", "\\ua7a3", "\\ua7a4", "\\ua7a5", "\\ua7a6", "\\ua7a7",
   "\\ua7a8", "\\ua7a9", "\\ua7aa", "\\ua7ab", "\\ua7ac", "\\ua7ad",
   "\\ua7ae", "\\ua7af", "\\ua7b0", "\\ua7b1", "\\ua7b2", "\\ua7b3",
   "\\ua7b4", "\\ua7b5", "\\ua7b6", "\\ua7b7", "\\ua7b8", "\\ua7b9",
   "\\ua7ba", "\\ua7bb", "\\ua7bc", "\\ua7bd", "\\ua7be", "\\ua7bf",
   "\\ua7c0", "\\ua7c1", "\\ua7c2", "\\ua7c3", "\\ua7c4", "\\ua7c5",
   "\\ua7c6", "\\ua7c7", "\\ua7c8", "\\ua7c9", "\\ua7ca", "\\ua7cb",
   "\\ua7cc", "\\ua7cd", "\\ua7ce", "\\ua7cf", "\\ua7d0", "\\ua7d1",
   "\\ua7d2", "\\ua7d3", "\\ua7d4", "\\ua7d5", "\\ua7d6", "\\ua7d7",
   "\\ua7d8", "\\ua7d9", "\\ua7da", "\\ua7db", "\\ua7dc", "\\ua7f5",
   "\\ua7f6", "\\ua7fa", "\\uab30", "\\uab31", "\\uab32", "\\uab33",
   "\\uab34", "\\uab35", "\\uab36", "\\uab37", "\\uab38", "\\uab39",
   "\\uab3a", "\\uab3b", "\\uab3c", "\\uab3d", "\\uab3e", "\\uab3f",
   "\\uab40", "\\uab41", "\\uab42", "\\uab43", "\\uab44", "\\uab45",
   "\\uab46", "\\uab47", "\\uab48", "\\uab49", "\\uab4a", "\\uab4b",
   "\\uab4c", "\\uab4d", "\\uab4e", "\\uab4f", "\\uab50", "\\uab51",
   "\\uab52", "\\uab53", "\\uab54", "\\uab55", "\\uab56", "\\uab57",
   "\\uab58", "\\uab59", "\\uab5a", "\\uab60", "\\uab61", "\\uab62",
   "\\uab63", "\\uab64", "\\uab65", "\\uab66", "\\uab67", "\\uab68",
   "\\uab70", "\\uab71", "\\uab72", "\\uab73", "\\uab74", "\\uab75",
   "\\uab76", "\\uab77", "\\uab78", "\\uab79", "\\uab7a", "\\uab7b",
   "\\uab7c", "\\uab7d", "\\uab7e", "\\uab7f", "\\uab80", "\\uab81",
   "\\uab82", "\\uab83", "\\uab84", "\\uab85", "\\uab86", "\\uab87",
   "\\uab88", "\\uab89", "\\uab8a", "\\uab8b", "\\uab8c", "\\uab8d",
   "\\uab8e", "\\uab8f", "\\uab90", "\\uab91", "\\uab92", "\\uab93",
   "\\uab94", "\\uab95", "\\uab96", "\\uab97", "\\uab98", "\\uab99",
   "\\uab9a", "\\uab9b", "\\uab9c", "\\uab9d", "\\uab9e", "\\uab9f",
   "\\uaba0", "\\uaba1", "\\uaba2", "\\uaba3", "\\uaba4", "\\uaba5",
   "\\uaba6", "\\uaba7", "\\uaba8", "\\uaba9", "\\uabaa", "\\uabab",
   "\\uabac", "\\uabad", "\\uabae", "\\uabaf", "\\uabb0", "\\uabb1",
   "\\uabb2", "\\uabb3", "\\uabb4", "\\uabb5", "\\uabb6", "\\uabb7",
   "\\uabb8", "\\uabb9", "\\uabba", "\\uabbb", "\\uabbc", "\\uabbd",
   "\\uabbe", "\\uabbf", "\\ufb00", "\\ufb01", "\\ufb02", "\\ufb03",
   "\\ufb04", "\\ufb05", "\\ufb06", "\\ufb13", "\\ufb14", "\\ufb15",
   "\\ufb16", "\\ufb17", "\\uff21", "\\uff22", "\\uff23", "\\uff24",
   "\\uff25", "\\uff26", "\\uff27", "\\uff28", "\\uff29", "\\uff2a",
   "\\uff2b", "\\uff2c", "\\uff2d", "\\uff2e", "\\uff2f", "\\uff30",
   "\\uff31", "\\uff32", "\\uff33", "\\uff34", "\\uff35", "\\uff36",
   "\\uff37", "\\uff38", "\\uff39", "\\uff3a", "\\uff41", "\\uff42",
   "\\uff43", "\\uff44", "\\uff45", "\\uff46", "\\uff47", "\\uff48",
   "\\uff49", "\\uff4a", "\\uff4b", "\\uff4c", "\\uff4d", "\\uff4e",
   "\\uff4f", "\\uff50", "\\uff51", "\\uff52", "\\uff53", "\\uff54",
   "\\uff55", "\\uff56", "\\uff57", "\\uff58", "\\uff59", "\\uff5a"}

CasedLow(high) ==
  IF high = "\\ud801"
  THEN
    {"\\udc00", "\\udc01", "\\udc02", "\\udc03", "\\udc04", "\\udc05",
     "\\udc06", "\\udc07", "\\udc08", "\\udc09", "\\udc0a", "\\udc0b",
     "\\udc0c", "\\udc0d", "\\udc0e", "\\udc0f", "\\udc10", "\\udc11",
     "\\udc12", "\\udc13", "\\udc14", "\\udc15", "\\udc16", "\\udc17",
     "\\udc18", "\\udc19", "\\udc1a", "\\udc1b", "\\udc1c", "\\udc1d",
     "\\udc1e", "\\udc1f", "\\udc20", "\\udc21", "\\udc22", "\\udc23",
     "\\udc24", "\\udc25", "\\udc26", "\\udc27", "\\udc28", "\\udc29",
     "\\udc2a", "\\udc2b", "\\udc2c", "\\udc2d", "\\udc2e", "\\udc2f",
     "\\udc30", "\\udc31", "\\udc32", "\\udc33", "\\udc34", "\\udc35",
     "\\udc36", "\\udc37", "\\udc38", "\\udc39", "\\udc3a", "\\udc3b",
     "\\udc3c", "\\udc3d", "\\udc3e", "\\udc3f", "\\udc40", "\\udc41",
     "\\udc42", "\\udc43", "\\udc44", "\\udc45", "\\udc46", "\\udc47",
     "\\udc48", "\\udc49", "\\udc4a", "\\udc4b", "\\udc4c", "\\udc4d",
     "\\udc4e", "\\udc4f", "\\udcb0", "\\udcb1", "\\udcb2", "\\udcb3",
     "\\udcb4", "\\udcb5", "\\udcb6", "\\udcb7", "\\udcb8", "\\udcb9",
     "\\udcba", "\\udcbb", "\\udcbc", "\\udcbd", "\\udcbe", "\\udcbf",
     "\\udcc0", "\\udcc1", "\\udcc2", "\\udcc3", "\\udcc4", "\\udcc5",
     "\\udcc6", "\\udcc7", "\\udcc8", "\\udcc9", "\\udcca", "\\udccb",
     "\\udccc", "\\udccd", "\\udcce", "\\udccf", "\\udcd0", "\\udcd1",
     "\\udcd2", "\\udcd3", "\\udcd8", "\\udcd9", "\\udcda", "\\udcdb",
     "\\udcdc", "\\udcdd", "\\udcde", "\\udcdf", "\\udce0", "\\udce1",
     "\\udce2", "\\udce3", "\\udce4", "\\udce5", "\\udce6", "\\udce7",
     "\\udce8", "\\udce9", "\\udcea", "\\udceb", "\\udcec", "\\udced",
     "\\udcee", "\\udcef", "\\udcf0", "\\udcf1", "\\udcf2", "\\udcf3",
     "\\udcf4", "\\udcf5", "\\udcf6", "\\udcf7", "\\udcf8", "\\udcf9",
     "\\udcfa", "\\udcfb", "\\udd70", "\\udd71", "\\udd72", "\\udd73",
     "\\udd74", "\\udd75", "\\udd76", "\\udd77", "\\udd78", "\\udd79",
     "\\udd7a", "\\udd7c", "\\udd7d", "\\udd7e", "\\udd7f", "\\udd80",
     "\\udd81", "\\udd82", "\\udd83", "\\udd84", "\\udd85", "\\udd86",
     "\\udd87", "\\udd88", "\\udd89", "\\udd8a", "\\udd8c", "\\udd8d",
     "\\udd8e", "\\udd8f", "\\udd90", "\\udd91", "\\udd92", "\\udd94",
     "\\udd95", "\\udd97", "\\udd98", "\\udd99", "\\udd9a", "\\udd9b",
     "\\udd9c", "\\udd9d", "\\udd9e", "\\udd9f", "\\udda0", "\\udda1",
     "\\udda3", "\\udda4", "\\udda5", "\\udda6", "\\udda7", "\\udda8",
     "\\udda9", "\\uddaa", "\\uddab", "\\uddac", "\\uddad", "\\uddae",
     "\\uddaf", "\\uddb0", "\\uddb1", "\\uddb3", "\\uddb4", "\\uddb5",
     "\\uddb6", "\\uddb7", "\\uddb8", "\\uddb9", "\\uddbb", "\\uddbc"}
  ELSE IF high = "\\ud803"
  THEN
    {"\\udc80", "\\udc81", "\\udc82", "\\udc83", "\\udc84", "\\udc85",
     "\\udc86", "\\udc87", "\\udc88", "\\udc89", "\\udc8a", "\\udc8b",
     "\\udc8c", "\\udc8d", "\\udc8e", "\\udc8f", "\\udc90", "\\udc91",
     "\\udc92", "\\udc93", "\\udc94", "\\udc95", "\\udc96", "\\udc97",
     "\\udc98", "\\udc99", "\\udc9a", "\\udc9b", "\\udc9c", "\\udc9d",
     "\\udc9e", "\\udc9f", "\\udca0", "\\udca1", "\\udca2", "\\udca3",
     "\\udca4", "\\udca5", "\\udca6", "\\udca7", "\\udca8", "\\udca9",
     "\\udcaa", "\\udcab", "\\udcac", "\\udcad", "\\udcae", "\\udcaf",
     "\\udcb0", "\\udcb1", "\\udcb2", "\\udcc0", "\\udcc1", "\\udcc2",
     "\\udcc3", "\\udcc4", "\\udcc5", "\\udcc6", "\\udcc7", "\\udcc8",
     "\\udcc9", "\\udcca", "\\udccb", "\\udccc", "\\udccd", "\\udcce",
     "\\udccf", "\\udcd0", "\\udcd1", "\\udcd2", "\\udcd3", "\\udcd4",
     "\\udcd5", "\\udcd6", "\\udcd7", "\\udcd8", "\\udcd9", "\\udcda",
     "\\udcdb", "\\udcdc", "\\udcdd", "\\udcde", "\\udcdf", "\\udce0",
     "\\udce1", "\\udce2", "\\udce3", "\\udce4", "\\udce5", "\\udce6",
     "\\udce7", "\\udce8", "\\udce9", "\\udcea", "\\udceb", "\\udcec",
     "\\udced", "\\udcee", "\\udcef", "\\udcf0", "\\udcf1", "\\udcf2",
     "\\udd50", "\\udd51", "\\udd52", "\\udd53", "\\udd54", "\\udd55",
     "\\udd56", "\\udd57", "\\udd58", "\\udd59", "\\udd5a", "\\udd5b",
     "\\udd5c", "\\udd5d", "\\udd5e", "\\udd5f", "\\udd60", "\\udd61",
     "\\udd62", "\\udd63", "\\udd64", "\\udd65", "\\udd70", "\\udd71",
     "\\udd72", "\\udd73", "\\udd74", "\\udd75", "\\udd76", "\\udd77",
     "\\udd78", "\\udd79", "\\udd7a", "\\udd7b", "\\udd7c", "\\udd7d",
     "\\udd7e", "\\udd7f", "\\udd80", "\\udd81", "\\udd82", "\\udd83",
     "\\udd84", "\\udd85"}
  ELSE IF high = "\\ud806"
  THEN
    {"\\udca0", "\\udca1", "\\udca2", "\\udca3", "\\udca4", "\\udca5",
     "\\udca6", "\\udca7", "\\udca8", "\\udca9", "\\udcaa", "\\udcab",
     "\\udcac", "\\udcad", "\\udcae", "\\udcaf", "\\udcb0", "\\udcb1",
     "\\udcb2", "\\udcb3", "\\udcb4", "\\udcb5", "\\udcb6", "\\udcb7",
     "\\udcb8", "\\udcb9", "\\udcba", "\\udcbb", "\\udcbc", "\\udcbd",
     "\\udcbe", "\\udcbf", "\\udcc0", "\\udcc1", "\\udcc2", "\\udcc3",
     "\\udcc4", "\\udcc5", "\\udcc6", "\\udcc7", "\\udcc8", "\\udcc9",
     "\\udcca", "\\udccb", "\\udccc", "\\udccd", "\\udcce", "\\udccf",
     "\\udcd0", "\\udcd1", "\\udcd2", "\\udcd3", "\\udcd4", "\\udcd5",
     "\\udcd6", "\\udcd7", "\\udcd8", "\\udcd9", "\\udcda", "\\udcdb",
     "\\udcdc", "\\udcdd", "\\udcde", "\\udcdf"}
  ELSE IF high = "\\ud81b"
  THEN
    {"\\ude40", "\\ude41", "\\ude42", "\\ude43", "\\ude44", "\\ude45",
     "\\ude46", "\\ude47", "\\ude48", "\\ude49", "\\ude4a", "\\ude4b",
     "\\ude4c", "\\ude4d", "\\ude4e", "\\ude4f", "\\ude50", "\\ude51",
     "\\ude52", "\\ude53", "\\ude54", "\\ude55", "\\ude56", "\\ude57",
     "\\ude58", "\\ude59", "\\ude5a", "\\ude5b", "\\ude5c", "\\ude5d",
     "\\ude5e", "\\ude5f", "\\ude60", "\\ude61", "\\ude62", "\\ude63",
     "\\ude64", "\\ude65", "\\ude66", "\\ude67", "\\ude68", "\\ude69",
     "\\ude6a", "\\ude6b", "\\ude6c", "\\ude6d", "\\ude6e", "\\ude6f",
     "\\ude70", "\\ude71", "\\ude72", "\\ude73", "\\ude74", "\\ude75",
     "\\ude76", "\\ude77", "\\ude78", "\\ude79", "\\ude7a", "\\ude7b",
     "\\ude7c", "\\ude7d", "\\ude7e", "\\ude7f", "\\udea0", "\\udea1",
     "\\udea2", "\\udea3", "\\udea4", "\\udea5", "\\udea6", "\\udea7",
     "\\udea8", "\\udea9", "\\udeaa", "\\udeab", "\\udeac", "\\udead",
     "\\udeae", "\\udeaf", "\\udeb0", "\\udeb1", "\\udeb2", "\\udeb3",
     "\\udeb4", "\\udeb5", "\\udeb6", "\\udeb7", "\\udeb8", "\\udebb",
     "\\udebc", "\\udebd", "\\udebe", "\\udebf", "\\udec0", "\\udec1",
     "\\udec2", "\\udec3", "\\udec4", "\\udec5", "\\udec6", "\\udec7",
     "\\udec8", "\\udec9", "\\udeca", "\\udecb", "\\udecc", "\\udecd",
     "\\udece", "\\udecf", "\\uded0", "\\uded1", "\\uded2", "\\uded3"}
  ELSE IF high = "\\ud835"
  THEN
    {"\\udc00", "\\udc01", "\\udc02", "\\udc03", "\\udc04", "\\udc05",
     "\\udc06", "\\udc07", "\\udc08", "\\udc09", "\\udc0a", "\\udc0b",
     "\\udc0c", "\\udc0d", "\\udc0e", "\\udc0f", "\\udc10", "\\udc11",
     "\\udc12", "\\udc13", "\\udc14", "\\udc15", "\\udc16", "\\udc17",
     "\\udc18", "\\udc19", "\\udc1a", "\\udc1b", "\\udc1c", "\\udc1d",
     "\\udc1e", "\\udc1f", "\\udc20", "\\udc21", "\\udc22", "\\udc23",
     "\\udc24", "\\udc25", "\\udc26", "\\udc27", "\\udc28", "\\udc29",
     "\\udc2a", "\\udc2b", "\\udc2c", "\\udc2d", "\\udc2e", "\\udc2f",
     "\\udc30", "\\udc31", "\\udc32", "\\udc33", "\\udc34", "\\udc35",
     "\\udc36", "\\udc37", "\\udc38", "\\udc39", "\\udc3a", "\\udc3b",
     "\\udc3c", "\\udc3d", "\\udc3e", "\\udc3f", "\\udc40", "\\udc41",
     "\\udc42", "\\udc43", "\\udc44", "\\udc45", "\\udc46", "\\udc47",
     "\\udc48", "\\udc49", "\\udc4a", "\\udc4b", "\\udc4c", "\\udc4d",
     "\\udc4e", "\\udc4f", "\\udc50", "\\udc51", "\\udc52", "\\udc53",
     "\\udc54", "\\udc56", "\\udc57", "\\udc58", "\\udc59", "\\udc5a",
     "\\udc5b", "\\udc5c", "\\udc5d", "\\udc5e", "\\udc5f", "\\udc60",
     "\\udc61", "\\udc62", "\\udc63", "\\udc64", "\\udc65", "\\udc66",
     "\\udc67", "\\udc68", "\\udc69", "\\udc6a", "\\udc6b", "\\udc6c",
     "\\udc6d", "\\udc6e", "\\udc6f", "\\udc70", "\\udc71", "\\udc72",
     "\\udc73", "\\udc74", "\\udc75", "\\udc76", "\\udc77", "\\udc78",
     "\\udc79", "\\udc7a", "\\udc7b", "\\udc7c", "\\udc7d", "\\udc7e",
     "\\udc7f", "\\udc80", "\\udc81", "\\udc82", "\\udc83", "\\udc84",
     "\\udc85", "\\udc86", "\\udc87", "\\udc88", "\\udc89", "\\udc8a",
     "\\udc8b", "\\udc8c", "\\udc8d", "\\udc8e", "\\udc8f", "\\udc90",
     "\\udc91", "\\udc92", "\\udc93", "\\udc94", "\\udc95", "\\udc96",
     "\\udc97", "\\udc98", "\\udc99", "\\udc9a", "\\udc9b", "\\udc9c",
     "\\udc9e", "\\udc9f", "\\udca2", "\\udca5", "\\udca6", "\\udca9",
     "\\udcaa", "\\udcab", "\\udcac", "\\udcae", "\\udcaf", "\\udcb0",
     "\\udcb1", "\\udcb2", "\\udcb3", "\\udcb4", "\\udcb5", "\\udcb6",
     "\\udcb7", "\\udcb8", "\\udcb9", "\\udcbb", "\\udcbd", "\\udcbe",
     "\\udcbf", "\\udcc0", "\\udcc1", "\\udcc2", "\\udcc3", "\\udcc5",
     "\\udcc6", "\\udcc7", "\\udcc8", "\\udcc9", "\\udcca", "\\udccb",
     "\\udccc", "\\udccd", "\\udcce", "\\udccf", "\\udcd0", "\\udcd1",
     "\\udcd2", "\\udcd3", "\\udcd4", "\\udcd5", "\\udcd6", "\\udcd7",
     "\\udcd8", "\\udcd9", "\\udcda", "\\udcdb", "\\udcdc", "\\udcdd",
     "\\udcde", "\\udcdf", "\\udce0", "\\udce1", "\\udce2", "\\udce3",
     "\\udce4", "\\udce5", "\\udce6", "\\udce7", "\\udce8", "\\udce9",
     "\\udcea", "\\udceb", "\\udcec", "\\udced", "\\udcee", "\\udcef",
     "\\udcf0", "\\udcf1", "\\udcf2", "\\udcf3", "\\udcf4", "\\udcf5",
     "\\udcf6", "\\udcf7", "\\udcf8", "\\udcf9", "\\udcfa", "\\udcfb",
     "\\udcfc", "\\udcfd", "\\udcfe", "\\udcff", "\\udd00", "\\udd01",
     "\\udd02", "\\udd03", "\\udd04", "\\udd05", "\\udd07", "\\udd08",
     "\\udd09", "\\udd0a", "\\udd0d", "\\udd0e", "\\udd0f", "\\udd10",
     "\\udd11", "\\udd12", "\\udd13", "\\udd14", "\\udd16", "\\udd17",
     "\\udd18", "\\udd19", "\\udd1a", "\\udd1b", "\\udd1c", "\\udd1e",
     "\\udd1f", "\\udd20", "\\udd21", "\\udd22", "\\udd23", "\\udd24",
     "\\udd25", "\\udd26", "\\udd27", "\\udd28", "\\udd29", "\\udd2a",
     "\\udd2b", "\\udd2c", "\\udd2d", "\\udd2e", "\\udd2f", "\\udd30",
     "\\udd31", "\\udd32", "\\udd33", "\\udd34", "\\udd35", "\\udd36",
     "\\udd37", "\\udd38", "\\udd39", "\\udd3b", "\\udd3c", "\\udd3d",
     "\\udd3e", "\\udd40", "\\udd41", "\\udd42", "\\udd43", "\\udd44",
     "\\udd46", "\\udd4a", "\\udd4b", "\\udd4c", "\\udd4d", "\\udd4e",
     "\\udd4f", "\\udd50", "\\udd52", "\\udd53", "\\udd54", "\\udd55",
     "\\udd56", "\\udd57", "\\udd58", "\\udd59", "\\udd5a", "\\udd5b",
     "\\udd5c", "\\udd5d", "\\udd5e", "\\udd5f", "\\udd60", "\\udd61",
     "\\udd62", "\\udd63", "\\udd64", "\\udd65", "\\udd66", "\\udd67",
     "\\udd68", "\\udd69", "\\udd6a", "\\udd6b", "\\udd6c", "\\udd6d",
     "\\udd6e", "\\udd6f", "\\udd70", "\\udd71", "\\udd72", "\\udd73",
     "\\udd74", "\\udd75", "\\udd76", "\\udd77", "\\udd78", "\\udd79",
     "\\udd7a", "\\udd7b", "\\udd7c", "\\udd7d", "\\udd7e", "\\udd7f",
     "\\udd80", "\\udd81", "\\udd82", "\\udd83", "\\udd84", "\\udd85",
     "\\udd86", "\\udd87", "\\udd88", "\\udd89", "\\udd8a", "\\udd8b",
     "\\udd8c", "\\udd8d", "\\udd8e", "\\udd8f", "\\udd90", "\\udd91",
     "\\udd92", "\\udd93", "\\udd94", "\\udd95", "\\udd96", "\\udd97",
     "\\udd98", "\\udd99", "\\udd9a", "\\udd9b", "\\udd9c", "\\udd9d",
     "\\udd9e", "\\udd9f", "\\udda0", "\\udda1", "\\udda2", "\\udda3",
     "\\udda4", "\\udda5", "\\udda6", "\\udda7", "\\udda8", "\\udda9",
     "\\uddaa", "\\uddab", "\\uddac", "\\uddad", "\\uddae", "\\uddaf",
     "\\uddb0", "\\uddb1", "\\uddb2", "\\uddb3", "\\uddb4", "\\uddb5",
     "\\uddb6", "\\uddb7", "\\uddb8", "\\uddb9", "\\uddba", "\\uddbb",
     "\\uddbc", "\\uddbd", "\\uddbe", "\\uddbf", "\\uddc0", "\\uddc1",
     "\\uddc2", "\\uddc3", "\\uddc4", "\\uddc5", "\\uddc6", "\\uddc7",
     "\\uddc8", "\\uddc9", "\\uddca", "\\uddcb", "\\uddcc", "\\uddcd",
     "\\uddce", "\\uddcf", "\\uddd0", "\\uddd1", "\\uddd2", "\\uddd3",
     "\\uddd4", "\\uddd5", "\\uddd6", "\\uddd7", "\\uddd8", "\\uddd9",
     "\\uddda", "\\udddb", "\\udddc", "\\udddd", "\\uddde", "\\udddf",
     "\\udde0", "\\udde1", "\\udde2", "\\udde3", "\\udde4", "\\udde5",
     "\\udde6", "\\udde7", "\\udde8", "\\udde9", "\\uddea", "\\uddeb",
     "\\uddec", "\\udded", "\\uddee", "\\uddef", "\\uddf0", "\\uddf1",
     "\\uddf2", "\\uddf3", "\\uddf4", "\\uddf5", "\\uddf6", "\\uddf7",
     "\\uddf8", "\\uddf9", "\\uddfa", "\\uddfb", "\\uddfc", "\\uddfd",
     "\\uddfe", "\\uddff", "\\ude00", "\\ude01", "\\ude02", "\\ude03",
     "\\ude04", "\\ude05", "\\ude06", "\\ude07", "\\ude08", "\\ude09",
     "\\ude0a", "\\ude0b", "\\ude0c", "\\ude0d", "\\ude0e", "\\ude0f",
     "\\ude10", "\\ude11", "\\ude12", "\\ude13", "\\ude14", "\\ude15",
     "\\ude16", "\\ude17", "\\ude18", "\\ude19", "\\ude1a", "\\ude1b",
     "\\ude1c", "\\ude1d", "\\ude1e", "\\ude1f", "\\ude20", "\\ude21",
     "\\ude22", "\\ude23", "\\ude24", "\\ude25", "\\ude26", "\\ude27",
     "\\ude28", "\\ude29", "\\ude2a", "\\ude2b", "\\ude2c", "\\ude2d",
     "\\ude2e", "\\ude2f", "\\ude30", "\\ude31", "\\ude32", "\\ude33",
     "\\ude34", "\\ude35", "\\ude36", "\\ude37", "\\ude38", "\\ude39",
     "\\ude3a", "\\ude3b", "\\ude3c", "\\ude3d", "\\ude3e", "\\ude3f",
     "\\ude40", "\\ude41", "\\ude42", "\\ude43", "\\ude44", "\\ude45",
     "\\ude46", "\\ude47", "\\ude48", "\\ude49", "\\ude4a", "\\ude4b",
     "\\ude4c", "\\ude4d", "\\ude4e", "\\ude4f", "\\ude50", "\\ude51",
     "\\ude52", "\\ude53", "\\ude54", "\\ude55", "\\ude56", "\\ude57",
     "\\ude58", "\\ude59", "\\ude5a", "\\ude5b", "\\ude5c", "\\ude5d",
     "\\ude5e", "\\ude5f", "\\ude60", "\\ude61", "\\ude62", "\\ude63",
     "\\ude64", "\\ude65", "\\ude66", "\\ude67", "\\ude68", "\\ude69",
     "\\ude6a", "\\ude6b", "\\ude6c", "\\ude6d", "\\ude6e", "\\ude6f",
     "\\ude70", "\\ude71", "\\ude72", "\\ude73", "\\ude74", "\\ude75",
     "\\ude76", "\\ude77", "\\ude78", "\\ude79", "\\ude7a", "\\ude7b",
     "\\ude7c", "\\ude7d", "\\ude7e", "\\ude7f", "\\ude80", "\\ude81",
     "\\ude82", "\\ude83", "\\ude84", "\\ude85", "\\ude86", "\\ude87",
     "\\ude88", "\\ude89", "\\ude8a", "\\ude8b", "\\ude8c", "\\ude8d",
     "\\ude8e", "\\ude8f", "\\ude90", "\\ude91", "\\ude92", "\\ude93",
     "\\ude94", "\\ude95", "\\ude96", "\\ude97", "\\ude98", "\\ude99",
     "\\ude9a", "\\ude9b", "\\ude9c", "\\ude9d", "\\ude9e", "\\ude9f",
     "\\udea0", "\\udea1", "\\udea2", "\\udea3", "\\udea4", "\\udea5",
     "\\udea8", "\\udea9", "\\udeaa", "\\udeab", "\\udeac", "\\udead",
     "\\udeae", "\\udeaf", "\\udeb0", "\\udeb1", "\\udeb2", "\\udeb3",
     "\\udeb4", "\\udeb5", "\\udeb6", "\\udeb7", "\\udeb8", "\\udeb9",
     "\\udeba", "\\udebb", "\\udebc", "\\udebd", "\\udebe", "\\udebf",
     "\\udec0", "\\udec2", "\\udec3", "\\udec4", "\\udec5", "\\udec6",
     "\\udec7", "\\udec8", "\\udec9", "\\udeca", "\\udecb", "\\udecc",
     "\\udecd", "\\udece", "\\udecf", "\\uded0", "\\uded1", "\\uded2",
     "\\uded3", "\\uded4", "\\uded5", "\\uded6", "\\uded7", "\\uded8",
     "\\uded9", "\\udeda", "\\udedc", "\\udedd", "\\udede", "\\udedf",
     "\\udee0", "\\udee1", "\\udee2", "\\udee3", "\\udee4", "\\udee5",
     "\\udee6", "\\udee7", "\\udee8", "\\udee9", "\\udeea", "\\udeeb",
     "\\udeec", "\\udeed", "\\udeee", "\\udeef", "\\udef0", "\\udef1",
     "\\udef2", "\\udef3", "\\udef4", "\\udef5", "\\udef6", "\\udef7",
     "\\udef8", "\\udef9", "\\udefa", "\\udefc", "\\udefd", "\\udefe",
     "\\udeff", "\\udf00", "\\udf01", "\\udf02", "\\udf03", "\\udf04",
     "\\udf05", "\\udf06", "\\udf07", "\\udf08", "\\udf09", "\\udf0a",
     "\\udf0b", "\\udf0c", "\\udf0d", "\\udf0e", "\\udf0f", "\\udf10",
     "\\udf11", "\\udf12", "\\udf13", "\\udf14", "\\udf16", "\\udf17",
     "\\udf18", "\\udf19", "\\udf1a", "\\udf1b", "\\udf1c", "\\udf1d",
     "\\udf1e", "\\udf1f", "\\udf20", "\\udf21", "\\udf22", "\\udf23",
     "\\udf24", "\\udf25", "\\udf26", "\\udf27", "\\udf28", "\\udf29",
     "\\udf2a", "\\udf2b", "\\udf2c", "\\udf2d", "\\udf2e", "\\udf2f",
     "\\udf30", "\\udf31", "\\udf32", "\\udf33", "\\udf34", "\\udf36",
     "\\udf37", "\\udf38", "\\udf39", "\\udf3a", "\\udf3b", "\\udf3c",
     "\\udf3d", "\\udf3e", "\\udf3f", "\\udf40", "\\udf41", "\\udf42",
     "\\udf43", "\\udf44", "\\udf45", "\\udf46", "\\udf47", "\\udf48",
     "\\udf49", "\\udf4a", "\\udf4b", "\\udf4c", "\\udf4d", "\\udf4e",
     "\\udf50", "\\udf51", "\\udf52", "\\udf53", "\\udf54", "\\udf55",
     "\\udf56", "\\udf57", "\\udf58", "\\udf59", "\\udf5a", "\\udf5b",
     "\\udf5c", "\\udf5d", "\\udf5e", "\\udf5f", "\\udf60", "\\udf61",
     "\\udf62", "\\udf63", "\\udf64", "\\udf65", "\\udf66", "\\udf67",
     "\\udf68", "\\udf69", "\\udf6a", "\\udf6b", "\\udf6c", "\\udf6d",
     "\\udf6e", "\\udf70", "\\udf71", "\\udf72", "\\udf73", "\\udf74",
     "\\udf75", "\\udf76", "\\udf77", "\\udf78", "\\udf79", "\\udf7a",
     "\\udf7b", "\\udf7c", "\\udf7d", "\\udf7e", "\\udf7f", "\\udf80",
     "\\udf81", "\\udf82", "\\udf83", "\\udf84", "\\udf85", "\\udf86",
     "\\udf87", "\\udf88", "\\udf8a", "\\udf8b", "\\udf8c", "\\udf8d",
     "\\udf8e", "\\udf8f", "\\udf90", "\\udf91", "\\udf92", "\\udf93",
     "\\udf94", "\\udf95", "\\udf96", "\\udf97", "\\udf98", "\\udf99",
     "\\udf9a", "\\udf9b", "\\udf9c", "\\udf9d", "\\udf9e", "\\udf9f",
     "\\udfa0", "\\udfa1", "\\udfa2", "\\udfa3", "\\udfa4", "\\udfa5",
     "\\udfa6", "\\udfa7", "\\udfa8", "\\udfaa", "\\udfab", "\\udfac",
     "\\udfad", "\\udfae", "\\udfaf", "\\udfb0", "\\udfb1", "\\udfb2",
     "\\udfb3", "\\udfb4", "\\udfb5", "\\udfb6", "\\udfb7", "\\udfb8",
     "\\udfb9", "\\udfba", "\\udfbb", "\\udfbc", "\\udfbd", "\\udfbe",
     "\\udfbf", "\\udfc0", "\\udfc1", "\\udfc2", "\\udfc4", "\\udfc5",
     "\\udfc6", "\\udfc7", "\\udfc8", "\\udfc9", "\\udfca", "\\udfcb"}
  ELSE IF high = "\\ud837"
  THEN
    {"\\udf00", "\\udf01", "\\udf02", "\\udf03", "\\udf04", "\\udf05",
     "\\udf06", "\\udf07", "\\udf08", "\\udf09", "\\udf0b", "\\udf0c",
     "\\udf0d", "\\udf0e", "\\udf0f", "\\udf10", "\\udf11", "\\udf12",
     "\\udf13", "\\udf14", "\\udf15", "\\udf16", "\\udf17", "\\udf18",
     "\\udf19", "\\udf1a", "\\udf1b", "\\udf1c", "\\udf1d", "\\udf1e",
     "\\udf25", "\\udf26", "\\udf27", "\\udf28", "\\udf29", "\\udf2a"}
  ELSE IF high = "\\ud83a"
  THEN
    {"\\udd00", "\\udd01", "\\udd02", "\\udd03", "\\udd04", "\\udd05",
     "\\udd06", "\\udd07", "\\udd08", "\\udd09", "\\udd0a", "\\udd0b",
     "\\udd0c", "\\udd0d", "\\udd0e", "\\udd0f", "\\udd10", "\\udd11",
     "\\udd12", "\\udd13", "\\udd14", "\\udd15", "\\udd16", "\\udd17",
     "\\udd18", "\\udd19", "\\udd1a", "\\udd1b", "\\udd1c", "\\udd1d",
     "\\udd1e", "\\udd1f", "\\udd20", "\\udd21", "\\udd22", "\\udd23",
     "\\udd24", "\\udd25", "\\udd26", "\\udd27", "\\udd28", "\\udd29",
     "\\udd2a", "\\udd2b", "\\udd2c", "\\udd2d", "\\udd2e", "\\udd2f",
     "\\udd30", "\\udd31", "\\udd32", "\\udd33", "\\udd34", "\\udd35",
     "\\udd36", "\\udd37", "\\udd38", "\\udd39", "\\udd3a", "\\udd3b",
     "\\udd3c", "\\udd3d", "\\udd3e", "\\udd3f", "\\udd40", "\\udd41",
     "\\udd42", "\\udd43"}
  ELSE IF high = "\\ud83c"
  THEN
    {"\\udd30", "\\udd31", "\\udd32", "\\udd33", "\\udd34", "\\udd35",
     "\\udd36", "\\udd37", "\\udd38", "\\udd39", "\\udd3a", "\\udd3b",
     "\\udd3c", "\\udd3d", "\\udd3e", "\\udd3f", "\\udd40", "\\udd41",
     "\\udd42", "\\udd43", "\\udd44", "\\udd45", "\\udd46", "\\udd47",
     "\\udd48", "\\udd49", "\\udd50", "\\udd51", "\\udd52", "\\udd53",
     "\\udd54", "\\udd55", "\\udd56", "\\udd57", "\\udd58", "\\udd59",
     "\\udd5a", "\\udd5b", "\\udd5c", "\\udd5d", "\\udd5e", "\\udd5f",
     "\\udd60", "\\udd61", "\\udd62", "\\udd63", "\\udd64", "\\udd65",
     "\\udd66", "\\udd67", "\\udd68", "\\udd69", "\\udd70", "\\udd71",
     "\\udd72", "\\udd73", "\\udd74", "\\udd75", "\\udd76", "\\udd77",
     "\\udd78", "\\udd79", "\\udd7a", "\\udd7b", "\\udd7c", "\\udd7d",
     "\\udd7e", "\\udd7f", "\\udd80", "\\udd81", "\\udd82", "\\udd83",
     "\\udd84", "\\udd85", "\\udd86", "\\udd87", "\\udd88", "\\udd89"}
  ELSE {}

\* The printable characters and the white space of ASCII: none is part of
\* a pair, and the capital letters among them are the first 26 entries of
\* UpperCase.
Ascii ==
  {" ", "!", "\"", "#", "$", "%", "&", "'", "(", ")", "*", "+", ",", "-", ".", "/",
   "0", "1", "2", "3", "4", "5", "6", "7", "8", "9", ":", ";", "<", "=", ">", "?",
   "@", "A", "B", "C", "D", "E", "F", "G", "H", "I", "J", "K", "L", "M", "N", "O",
   "P", "Q", "R", "S", "T", "U", "V", "W", "X", "Y", "Z", "[", "\\", "]", "^", "_",
   "\\u0060", "a", "b", "c", "d", "e", "f", "g", "h", "i", "j", "k", "l", "m", "n",
   "o", "p", "q", "r", "s", "t", "u", "v", "w", "x", "y", "z", "{", "|", "}", "~",
   "\n", "\t", "\r", "\f", "\\v"}

\* A cased letter ends at s[j] or before it, with nothing but characters
\* that are looked through in between.
RECURSIVE CasedBefore(_, _)
CasedBefore(s, j) ==
  IF j < 1 THEN FALSE
  ELSE IF j >= 2 /\ s[j] \in CaseIgnorableLow(s[j - 1]) THEN CasedBefore(s, j - 2)
  ELSE IF j >= 2 /\ s[j] \in CasedLow(s[j - 1]) THEN TRUE
  ELSE IF s[j] \in CaseIgnorable THEN CasedBefore(s, j - 1)
  ELSE s[j] \in Cased

\* A cased letter begins at s[j] or after it, in the same way.
RECURSIVE CasedAfter(_, _)
CasedAfter(s, j) ==
  IF j > Len(s) THEN FALSE
  ELSE IF j < Len(s) /\ s[j + 1] \in CaseIgnorableLow(s[j]) THEN CasedAfter(s, j + 2)
  ELSE IF j < Len(s) /\ s[j + 1] \in CasedLow(s[j]) THEN TRUE
  ELSE IF s[j] \in CaseIgnorable THEN CasedAfter(s, j + 1)
  ELSE s[j] \in Cased

\* A capital sigma at s[k] ends a word (Final_Sigma): a cased letter comes
\* before it and none after it.
FinalSigma(s, k) == CasedBefore(s, k - 1) /\ ~CasedAfter(s, k + 1)

\* The lower case of the character s[k] of one code unit: one character,
\* or two for the capital I with a dot, U+0130 (i and the combining dot);
\* the capital sigma, U+03A3, that ends a word gives the final small
\* sigma, U+03C2.
LowerCaseAt(s, k) ==
  IF s[k] \in Ascii
  THEN IF \E i \in 1..26 : UpperCase[i] = s[k]
       THEN <<LowerCase[CHOOSE i \in 1..26 : UpperCase[i] = s[k]]>>
       ELSE <<s[k]>>
  ELSE IF s[k] = "\\u0130" THEN <<"i", "\\u0307">>
  ELSE IF s[k] = "\\u03a3" /\ FinalSigma(s, k) THEN <<"\\u03c2">>
  ELSE IF \E i \in 1..Len(UpperCase) : UpperCase[i] = s[k]
  THEN <<LowerCase[CHOOSE i \in 1..Len(UpperCase) : UpperCase[i] = s[k]]>>
  ELSE <<s[k]>>

\* The pair of surrogates at s[k] has a lower case form.
UpperCasePairAt(s, k) ==
  /\ k < Len(s)
  /\ s[k] \notin Ascii
  /\ \E i \in 1..Len(UpperCaseLow(s[k])) : UpperCaseLow(s[k])[i] = s[k + 1]

\* The lower case of a pair of surrogates.
LowerCasePair(high, low) ==
  <<high, LowerCaseLow(high)[CHOOSE i \in 1..Len(UpperCaseLow(high)) :
                               UpperCaseLow(high)[i] = low]>>

RECURSIVE LowerCaseFrom(_, _)
LowerCaseFrom(s, k) ==
  IF k > Len(s) THEN <<>>
  ELSE IF UpperCasePairAt(s, k)
  THEN LowerCasePair(s[k], s[k + 1]) \o LowerCaseFrom(s, k + 2)
  ELSE LowerCaseAt(s, k) \o LowerCaseFrom(s, k + 1)

\* s.toLowerCase()
ToLowerCase(s) == LowerCaseFrom(s, 1)

Positions(n) == [p \in 1..n |-> p]

TypesPrefix == <<"@", "t", "y", "p", "e", "s">>

\* isTypeDefinition(node), which the components import from the parser
\* and the parser does not define: the test the template of the graph
\* makes for a type package, node.name.startsWith('@types').
IsTypeDefinition(node) == StartsWith(node.name, TypesPrefix)

\* No search term, every kind shown, no conflict highlight.
NoFilters(c) ==
  /\ Trim(c.searchTerm) = <<>>
  /\ c.showDevDeps /\ c.showPeerDeps /\ c.showOptionalDeps /\ c.showProdDeps
  /\ c.showTypeDefinitions
  /\ ~c.highlightVersionConflicts

\* The filter on one node.
NodeMatches(node, c) ==
  /\ c.showDevDeps \/ node.type # "dev"
  /\ c.showPeerDeps \/ node.type # "peer"
  /\ c.showOptionalDeps \/ node.type # "optional"
  /\ c.showProdDeps \/ node.type # "prod"
  /\ c.showTypeDefinitions \/ ~IsTypeDefinition(node)
  /\ ~c.highlightVersionConflicts \/ node.hasMultipleVersions
  /\ Trim(c.searchTerm) = <<>>
       \/ Includes(ToLowerCase(node.id), ToLowerCase(c.searchTerm))

\* The links whose source and target are ids of the nodes kept.
LinksBetween(gd, nodePositions) ==
  LET ids == {gd.nodes[nodePositions[k]].id : k \in 1..Len(nodePositions)}
  IN SelectSeq(Positions(Len(gd.links)),
               LAMBDA p : gd.links[p].source \in ids /\ gd.links[p].target \in ids)

\* The nodes kept and the links between them.
FilteredTo(gd, nodePositions) ==
  [nodes |-> nodePositions, links |-> LinksBetween(gd, nodePositions)]

\* function getFilteredData()
GetFilteredData(gd, c) ==
  IF NoFilters(c)
  THEN [nodes |-> Positions(Len(gd.nodes)), links |-> Positions(Len(gd.links))]
  ELSE FilteredTo(gd, SelectSeq(Positions(Len(gd.nodes)),
                                LAMBDA p : NodeMatches(gd.nodes[p], c)))

\* The body of displayedGraphData for the filtered data.
LimitedTo(gd, filteredData, nodeLimit) ==
  IF Len(filteredData.nodes) = 0
  THEN [nodes |-> <<>>, links |-> <<>>]
  ELSE IF Len(filteredData.nodes) <= nodeLimit
  THEN filteredData
  ELSE LET limitedNodes == SubSeq(filteredData.nodes, 1, nodeLimit)
           ids == {gd.nodes[limitedNodes[k]].id : k \in 1..Len(limitedNodes)}
       IN [nodes |-> limitedNodes,
           links |-> SelectSeq(filteredData.links,
                               LAMBDA p : gd.links[p].source \in ids
                                          /\ gd.links[p].target \in ids)]

\* let displayedGraphData = $derived(...)
DisplayedGraphData(gd, c) == LimitedTo(gd, GetFilteredData(gd, c), c.nodeLimit)

\* let isLimited = $derived(() => filteredGraphData().nodes.length > nodeLimit)
IsLimited(gd, c) == Len(GetFilteredData(gd, c).nodes) > c.nodeLimit

\* `${data.nodes.length}-${data.links.length}-${nodeIds.substring(0, 100)}`
DataId(gd, data) ==
  <<Len(data.nodes), Len(data.links),
    Substring(Join([k \in 1..Len(data.nodes) |-> gd.nodes[data.nodes[k]].id], <<",">>), 0, 100)>>

\* A cell that is the original object itself.
ShareCell(object, p) == [ref |-> p, obj |-> <<>>]

\* The component keeps the objects it is handed.
CellOfOriginal(object, p) == [ref |-> p, obj |-> <<>>]

\* const node = { ...n }; node.isTypeDefinition = isTypeDefinition(node):
\* a cell with an object of its own.
CopyNode(object, p) ==
  [ref |-> 0,
   obj |-> [x \in DOMAIN object \cup {"isTypeDefinition"} |->
              IF x = "isTypeDefinition" THEN IsTypeDefinition(object) ELSE object[x]]]

\* ({ ...l }): a cell with an object of its own.
CopyLink(object, p) == [ref |-> 0, obj |-> object]

\* The node object d3 finds for an id: forceLink replaces the id in
\* link.source and link.target by that object.
NodeObject(id) == IF id # <<>> /\ id[1] = "[object]" THEN id ELSE <<"[object]">> \o id

\* What the simulation writes into a node: its index, its position and
\* its velocity.
SimulatedNode(object, k) ==
  [x \in DOMAIN object \cup {"index", "x", "y", "vx", "vy"} |->
     IF x = "index" THEN k - 1
     ELSE IF x \in {"x", "y", "vx", "vy"} THEN "number"
     ELSE object[x]]

\* What forceLink writes into a link: the node objects and its index.
SimulatedLink(object, k) ==
  [x \in DOMAIN object \cup {"index"} |->
     IF x = "index" THEN k - 1
     ELSE IF x \in {"source", "target"} THEN NodeObject(object[x])
     ELSE object[x]]

\* d.fx = ...; d.fy = ... of the drag handlers.
FixedNode(object, value) ==
  [x \in DOMAIN object \cup {"fx", "fy"} |-> IF x \in {"fx", "fy"} THEN value ELSE object[x]]

\* simulation.nodes(nodes) and force('link').links(links): every object
\* of the two arrays is written, the one of the cell or, for a cell that
\* is an original object, the object of graphData.
RunSimulation(gd, g) ==
  [graphData |->
     [nodes |-> [p \in 1..Len(gd.nodes) |->
                   IF \E k \in 1..Len(g.nodes) : g.nodes[k].ref = p
                   THEN SimulatedNode(gd.nodes[p],
                                      CHOOSE k \in 1..Len(g.nodes) : g.nodes[k].ref = p)
                   ELSE gd.nodes[p]],
      links |-> [p \in 1..Len(gd.links) |->
                   IF \E k \in 1..Len(g.links) : g.links[k].ref = p
                   THEN SimulatedLink(gd.links[p],
                                      CHOOSE k \in 1..Len(g.links) : g.links[k].ref = p)
                   ELSE gd.links[p]]],
   graph |->
     [g EXCEPT
        !.detached = FALSE,
        !.simNodes = <<>>,
        !.running = TRUE,
        !.nodes = [k \in 1..Len(g.nodes) |->
                     IF g.nodes[k].ref = 0
                     THEN [ref |-> 0, obj |-> SimulatedNode(g.nodes[k].obj, k)]
                     ELSE g.nodes[k]],
        !.links = [k \in 1..Len(g.links) |->
                     IF g.links[k].ref = 0
                     THEN [ref |-> 0, obj |-> SimulatedLink(g.links[k].obj, k)]
                     ELSE g.links[k]]]]

\* A drag handler writes fx and fy of the node of a cell: the object of
\* the cell or, for a cell that is an original object, the object of
\* graphData.
FixCell(gd, cell, value) ==
  [graphData |->
     IF cell.ref = 0 THEN gd ELSE [gd EXCEPT !.nodes[cell.ref] = FixedNode(@, value)],
   cell |->
     IF cell.ref = 0 THEN [cell EXCEPT !.obj = FixedNode(@, value)] ELSE cell]

\* d.x of the node of a cell, undefined before the simulation has it.
PositionOf(gd, cell) ==
  LET object == IF cell.ref = 0 THEN cell.obj ELSE gd.nodes[cell.ref]
  IN IF "x" \in DOMAIN object THEN object.x ELSE "undefined"

SearchTerms == {<<>>, <<"T">>}

TypesA == TypesPrefix \o <<"/">> \o NameA

\* The call whose graph is shown: a type package that is a development
\* dependency in the tree, and a package of the table that declares it.
ViewCalls ==
  {[content |-> JsonDocument(<<TreeEntry(TypesA, Version1, Flags(TRUE, FALSE, FALSE), <<>>)>>,
                             <<TableEntry(PathB, Version1, NoFlags,
                                          Declared(TypesA, Version1))>>),
    lockfileType |-> PackageLockSelector]}

\* The state of Controls.svelte when the component is created.
InitialControls ==
  [searchTerm |-> <<>>, showDevDeps |-> TRUE, showPeerDeps |-> TRUE,
   showOptionalDeps |-> TRUE, showProdDeps |-> TRUE, showTypeDefinitions |-> TRUE,
   highlightVersionConflicts |-> FALSE, nodeLimit |-> NodeLimit]

\* let nodes = $state(data.nodes); let links = $state(data.links), no
\* simulation yet, so none that runs or holds nodes.
InitialGraph(gd, data) ==
  [nodes |-> [k \in 1..Len(data.nodes) |-> ShareCell(gd.nodes[data.nodes[k]], data.nodes[k])],
   links |-> [k \in 1..Len(data.links) |-> ShareCell(gd.links[data.links[k]], data.links[k])],
   lastDataId |-> <<>>,
   simulation |-> FALSE,
   running |-> FALSE,
   detached |-> FALSE,
   simNodes |-> <<>>]

\* {#if displayedGraphData().nodes.length > 0} <DependencyGraph .../>: the
\* graph component for the data displayed.  It is removed when no node is
\* displayed and created anew when one is displayed again.
RenderedFor(gd, data, g) ==
  IF Len(data.nodes) = 0
  THEN <<>>
  ELSE IF g = <<>>
  THEN InitialGraph(gd, data)
  ELSE g

\* The graph component under the controls c.
Rendered(gd, c, g) == RenderedFor(gd, DisplayedGraphData(gd, c), g)

\* A drag gesture between dragstarted and dragended.  The handlers hold
\* the node object of the circle that was taken: the k-th of the nodes of
\* the component, the k-th of the nodes the simulation holds, or an
\* object that neither holds any more.
DragOf(at, k) == [at |-> at, k |-> k, cell |-> <<>>]

DragOfDropped(cell) == [at |-> "dropped", k |-> 0, cell |-> cell]

\* The node object of the gesture d.
DraggedCell(g, d) ==
  IF d.at = "nodes" THEN g.nodes[d.k]
  ELSE IF d.at = "simNodes" THEN g.simNodes[d.k]
  ELSE d.cell

\* The gesture d when the component g goes, and its arrays with it: the
\* handlers keep the object.
Released(g, d) ==
  IF d = <<>> \/ d.at = "dropped" THEN d ELSE DragOfDropped(DraggedCell(g, d))

\* The gesture d when the template renders g2 in the place of g.
DraggingUnder(g, g2, d) == IF g # <<>> /\ g2 = <<>> THEN Released(g, d) ELSE d

\* The page of a graph that is shown: the text of its lockfile is kept,
\* no load is in flight and no error is shown.
PageShowing(c) ==
  /\ lockfileContent = <<c>>
  /\ errorMsg = <<>>
  /\ isLoading = FALSE
  /\ githubRepoUrl = <<>>
  /\ selectedLockfile = PackageLockFilename
  /\ loadingSource = <<>>
  /\ pending = <<>>
  /\ showTableView = FALSE

ViewInit ==
  /\ \E call \in ViewCalls :
       /\ content = call.content
       /\ lockfileType = call.lockfileType
       /\ returned = ParseLockfileOutcome(call.content, call.lockfileType).returned
  /\ pc = "settled"
  /\ thrown = <<>>
  /\ graphData = returned[1]
  /\ controls = InitialControls
  /\ graph = Rendered(graphData, controls, <<>>)
  /\ dragging = <<>>
  /\ PageShowing(content)

\* A handler of Controls.svelte sets the controls, and the template
\* renders the graph component for them.
SetControls(c) ==
  /\ controls # <<>>
  /\ controls' = c
  /\ graph' = Rendered(graphData, c, graph)
  /\ dragging' = DraggingUnder(graph, graph', dragging)
  /\ UNCHANGED <<content, lockfileType, pc, returned, thrown, graphData,
                 pageVars>>

\* bind:value={searchTerm}
SetSearchTerm ==
  \E t \in SearchTerms :
    /\ controls # <<>>
    /\ t # controls.searchTerm
    /\ SetControls([controls EXCEPT !.searchTerm = t])

\* bind:checked={showDevDeps}
ToggleShowDevDeps ==
  controls # <<>> /\ SetControls([controls EXCEPT !.showDevDeps = ~@])

\* bind:checked={showProdDeps}
ToggleShowProdDeps ==
  controls # <<>> /\ SetControls([controls EXCEPT !.showProdDeps = ~@])

\* bind:checked={showPeerDeps}
ToggleShowPeerDeps ==
  controls # <<>> /\ SetControls([controls EXCEPT !.showPeerDeps = ~@])

\* bind:checked={showOptionalDeps}
ToggleShowOptionalDeps ==
  controls # <<>> /\ SetControls([controls EXCEPT !.showOptionalDeps = ~@])

\* bind:checked={showTypeDefinitions}
ToggleShowTypeDefinitions ==
  controls # <<>> /\ SetControls([controls EXCEPT !.showTypeDefinitions = ~@])

\* bind:checked={highlightVersionConflicts}
ToggleHighlightVersionConflicts ==
  controls # <<>> /\ SetControls([controls EXCEPT !.highlightVersionConflicts = ~@])

\* onclick={() => (nodeLimit += 200)}, shown while isLimited()
ShowMore ==
  /\ controls # <<>>
  /\ IsLimited(graphData, controls)
  /\ SetControls([controls EXCEPT !.nodeLimit = @ + NodeLimitStep])

\* "Reset all filters", shown while no node is displayed.
ResetFilters ==
  /\ controls # <<>>
  /\ Len(DisplayedGraphData(graphData, controls).nodes) = 0
  /\ SetControls([controls EXCEPT
                    !.searchTerm = <<>>, !.showDevDeps = TRUE, !.showProdDeps = TRUE,
                    !.showPeerDeps = TRUE, !.showOptionalDeps = TRUE,
                    !.showTypeDefinitions = TRUE, !.highlightVersionConflicts = FALSE])

\* toggleView of the page, whose button is shown with a graph: the table
\* takes the place of the controls and of the graph under them, or new
\* controls take the place of the table.
ToggleView ==
  /\ graphData # <<>>
  /\ showTableView' = ~showTableView
  /\ IF showTableView
     THEN /\ controls' = InitialControls
          /\ graph' = Rendered(graphData, InitialControls, <<>>)
     ELSE /\ controls' = <<>>
          /\ graph' = <<>>
  /\ dragging' = DraggingUnder(graph, graph', dragging)
  /\ UNCHANGED <<content, lockfileType, pc, returned, thrown, graphData,
                 lockfileContent, errorMsg, isLoading, githubRepoUrl, selectedLockfile,
                 loadingSource, pending>>

\* simulation.nodes(): the nodes the simulation holds.
SimulationNodes(g) == IF g.detached THEN g.simNodes ELSE g.nodes

\* The copies the $effect makes of the data displayed.
Loaded(gd, data, g) ==
  [g EXCEPT
     !.lastDataId = DataId(gd, data),
     !.running = FALSE,
     !.detached = g.simulation,
     !.simNodes = IF g.simulation THEN SimulationNodes(g) ELSE <<>>,
     !.nodes = [k \in 1..Len(data.nodes) |-> CopyNode(gd.nodes[data.nodes[k]], data.nodes[k])],
     !.links = [k \in 1..Len(data.links) |-> CopyLink(gd.links[data.links[k]], data.links[k])]]

\* The $effect hands the copies of data to the simulation.
HandsOn(g, data) == g.simulation /\ Len(data.nodes) > 1

\* The gesture d after the $effect: the nodes of the component are put
\* aside for the copies, and the simulation keeps the nodes it has or
\* takes the copies.
DraggingAfterEffect(g, data, d) ==
  IF d = <<>> \/ d.at = "dropped" THEN d
  ELSE IF HandsOn(g, data) THEN Released(g, d)
  ELSE IF d.at = "simNodes" THEN d
  ELSE IF g.detached THEN Released(g, d)
  ELSE DragOf("simNodes", d.k)

\* The $effect on the data displayed.
DataEffectFor(data) ==
  /\ DataId(graphData, data) # graph.lastDataId
  /\ IF HandsOn(graph, data)
     THEN /\ graph' = RunSimulation(graphData, Loaded(graphData, data, graph)).graph
          /\ graphData' = RunSimulation(graphData, Loaded(graphData, data, graph)).graphData
     ELSE /\ graph' = Loaded(graphData, data, graph)
          /\ graphData' = graphData
  /\ dragging' = DraggingAfterEffect(graph, data, dragging)

\* The $effect of DependencyGraph.svelte on a change of its data: the
\* simulation is stopped, the component takes a copy of every node and link
\* and, when the simulation exists and there is more than one node, hands
\* the copies to it and restarts it; with one node the simulation keeps the
\* nodes it has.  A gesture goes on with the object it holds.
DataEffect ==
  /\ graph # <<>>
  /\ DataEffectFor(DisplayedGraphData(graphData, controls))
  /\ UNCHANGED <<content, lockfileType, pc, returned, thrown, controls, pageVars>>

\* onMount: the simulation is created on the nodes and links of the
\* component, after the first run of the $effect declared before it.
Mount ==
  /\ graph # <<>>
  /\ ~graph.simulation
  /\ graph.lastDataId # <<>>
  /\ graph' = [RunSimulation(graphData, graph).graph EXCEPT !.simulation = TRUE]
  /\ graphData' = RunSimulation(graphData, graph).graphData
  /\ UNCHANGED <<content, lockfileType, pc, returned, thrown, controls, dragging, pageVars>>

\* The gesture d after a tick: the nodes of the simulation are the nodes
\* of the component.
DraggingAfterTick(g, d) ==
  IF d = <<>> \/ d.at = "dropped" \/ ~g.detached THEN d
  ELSE IF d.at = "simNodes" THEN DragOf("nodes", d.k)
  ELSE Released(g, d)

\* The handler of a tick of the simulation, and the microtask it queues:
\* nodes = [...simulation.nodes()].
Tick ==
  /\ graph # <<>>
  /\ graph.running
  /\ graph' = [graph EXCEPT
                 !.nodes = SimulationNodes(graph),
                 !.detached = FALSE,
                 !.simNodes = <<>>]
  /\ dragging' = DraggingAfterTick(graph, dragging)
  /\ UNCHANGED <<content, lockfileType, pc, returned, thrown, graphData,
                 controls, pageVars>>

\* The callback of the ResizeObserver: updateDimensions, which restarts
\* the simulation.
Resize ==
  /\ graph # <<>>
  /\ graph.simulation
  /\ graph' = [graph EXCEPT !.running = TRUE]
  /\ UNCHANGED <<content, lockfileType, pc, returned, thrown, graphData,
                 controls, dragging, pageVars>>

\* dragstarted on the circle of a node of the component, every circle
\* having the drag behaviour: simulation.alphaTarget(0.3).restart();
\* d.fx = d.x; d.fy = d.y
DragStarted ==
  /\ graph # <<>>
  /\ graph.simulation
  /\ dragging = <<>>
  /\ \E k \in 1..Len(graph.nodes) :
       LET fixed == FixCell(graphData, graph.nodes[k], PositionOf(graphData, graph.nodes[k]))
       IN /\ graph' = [graph EXCEPT !.nodes[k] = fixed.cell, !.running = TRUE]
          /\ graphData' = fixed.graphData
          /\ dragging' = DragOf("nodes", k)
  /\ UNCHANGED <<content, lockfileType, pc, returned, thrown, controls, pageVars>>

\* A handler of the gesture writes value into fx and fy of its node.
DragWrites(value) ==
  LET fixed == FixCell(graphData, DraggedCell(graph, dragging), value)
  IN /\ graphData' = fixed.graphData
     /\ graph' = IF dragging.at = "nodes" THEN [graph EXCEPT !.nodes[dragging.k] = fixed.cell]
                 ELSE IF dragging.at = "simNodes"
                 THEN [graph EXCEPT !.simNodes[dragging.k] = fixed.cell]
                 ELSE graph

\* dragged: d.fx = event.x; d.fy = event.y
Dragged ==
  /\ dragging # <<>>
  /\ DragWrites("number")
  /\ dragging' = IF dragging.at = "dropped"
                 THEN DragOfDropped(FixCell(graphData, dragging.cell, "number").cell)
                 ELSE dragging
  /\ UNCHANGED <<content, lockfileType, pc, returned, thrown, controls, pageVars>>

\* dragended: d.fx = null; d.fy = null
DragEnded ==
  /\ dragging # <<>>
  /\ DragWrites("null")
  /\ dragging' = <<>>
  /\ UNCHANGED <<content, lockfileType, pc, returned, thrown, controls, pageVars>>

ViewNext ==
  \/ SetSearchTerm
  \/ ToggleShowDevDeps
  \/ ToggleShowProdDeps
  \/ ToggleShowPeerDeps
  \/ ToggleShowOptionalDeps
  \/ ToggleShowTypeDefinitions
  \/ ToggleHighlightVersionConflicts
  \/ ShowMore
  \/ ResetFilters
  \/ ToggleView
  \/ DataEffect
  \/ Mount
  \/ Tick
  \/ Resize
  \/ DragStarted
  \/ Dragged
  \/ DragEnded

ViewSpec == ViewInit /\ [][ViewNext]_vars

----------------------------------------------------------------------------
(* The page (+page.svelte): a lockfile is uploaded or fetched from GitHub, *)
(* parsed, and the graph or an error message is kept.  The file input, the *)
(* text inputs, the select and the button are disabled while isLoading, and *)
(* the button also while the URL is empty, so an operation starts only when *)
(* no load is in flight.  An absent value (null) is the empty sequence;    *)
(* loadingSource holds its value as a sequence of one element.  The branch *)
(* of a GitHub URL only enters the address that is fetched, whose response *)
(* is any of those below, and is left out.  The template shows the graph  *)
(* kept: new controls and a new graph component when graphData is set, and *)
(* none while it is null.                                                  *)

GithubHost == <<"g", "i", "t", "h", "u", "b", ".", "c", "o", "m">>

\* s.replace(p, r) for a string p: the first occurrence only.
Replace(s, p, r) ==
  LET i == IndexOf(s, p)
  IN IF i = -1 THEN s ELSE SubSeq(s, 1, i) \o r \o SubSeq(s, i + Len(p) + 1, Len(s))

\* parts[i] of a JavaScript array, undefined beyond its end.
ElementAt(parts, i) == IF i + 1 <= Len(parts) THEN parts[i + 1] ELSE <<>>

\* The part of fetchFromGitHub that reads githubRepoUrl: the path of the
\* file to fetch, or the Error thrown.
ParseGithubUrl(url, type) ==
  LET urlParts == Split(Replace(Replace(Replace(url,
                    <<"h", "t", "t", "p", "s", ":", "/", "/">> \o GithubHost \o <<"/">>, <<>>),
                    <<"h", "t", "t", "p", ":", "/", "/">> \o GithubHost \o <<"/">>, <<>>),
                    GithubHost \o <<"/">>, <<>>), <<"/">>)
      blob == <<"b", "l", "o", "b">>
      hasBlob == \E k \in 1..Len(urlParts) : urlParts[k] = blob
      blobIndex == MinOf({k \in 1..Len(urlParts) : urlParts[k] = blob}) - 1
      parts == Split(url, <<"/">>)
      invalid == [threw |-> TRUE, path |-> <<>>,
                  message |-> <<"Invalid GitHub repository format. Please use 'owner/repo' or full GitHub URL">>]
      unparsed == [threw |-> TRUE, path |-> <<>>,
                   message |-> <<"Could not parse GitHub repository information">>]
  IN IF Includes(url, GithubHost)
     THEN IF ElementAt(urlParts, 0) = <<>> \/ ElementAt(urlParts, 1) = <<>>
          THEN unparsed
          ELSE IF Len(urlParts) > 2 /\ hasBlob
          THEN [threw |-> FALSE, message |-> <<>>,
                path |-> IF Len(urlParts) > blobIndex + 2
                         THEN Join(SubSeq(urlParts, blobIndex + 3, Len(urlParts)), <<"/">>)
                         ELSE <<>>]
          ELSE [threw |-> FALSE, message |-> <<>>, path |-> type]
     ELSE IF Len(parts) >= 2
          THEN IF ElementAt(parts, 0) = <<>> \/ ElementAt(parts, 1) = <<>>
               THEN unparsed
               ELSE [threw |-> FALSE, message |-> <<>>, path |-> type]
          ELSE invalid

\* The texts of the files and of the responses.
PageDocuments ==
  {YarnDocument(<<Join(<<HeaderLine(NameA, Version1), VersionLine(Version1)>>, <<"\n">>)>>),
   YarnDocument(<<CommentLine>>),
   JsonDocument(<<TreeEntry(NameA, Version1, NoFlags, <<>>)>>, <<>>)}

\* The files the user picks: a name and a text.  A JSON document is not
\* handed to the text parser, which reads the characters of its text.
Files ==
  {[name |-> n, content |-> c] :
     n \in {YarnSelector, YarnFilename, PackageLockSelector, PackageLockFilename},
     c \in {d \in PageDocuments : d.kind = "text"}}
  \cup {[name |-> n, content |-> c] :
          n \in {PackageLockSelector, PackageLockFilename},
          c \in {d \in PageDocuments : d.kind = "json"}}

\* What the user types into the repository field.
RepoUrls ==
  {<<>>,
   <<"x">>,
   <<"o", "/", "r">>,
   GithubHost \o <<"/">>,
   GithubHost \o <<"/", "o", "/", "r", "/", "b", "l", "o", "b", "/", "m", "/">> \o YarnSelector}

PageInit ==
  /\ content = <<>>
  /\ lockfileType = <<>>
  /\ pc = "idle"
  /\ returned = <<>>
  /\ thrown = <<>>
  /\ NoView

\* {#if graphData} ... {#if showTableView} <AccessibleTable/> {:else}
\* <Controls/>: what the template renders for the graph gd.
Show(gd) ==
  IF gd = <<>> \/ showTableView
  THEN controls' = <<>> /\ graph' = <<>> /\ dragging' = Released(graph, dragging)
  ELSE /\ controls' = InitialControls
       /\ graph' = Rendered(gd, InitialControls, <<>>)
       /\ dragging' = Released(graph, dragging)

\* A load that leaves the graph of the load before it in place.
LoadBeginsKeepingGraph(source) ==
  /\ loadingSource' = <<source>>
  /\ isLoading' = TRUE
  /\ errorMsg' = <<>>
  /\ graphData' = graphData
  /\ UNCHANGED <<controls, graph, dragging>>
  /\ lockfileContent' = <<>>

\* loadingSource = ...; isLoading = true; errorMsg = null; graphData = null;
\* lockfileContent = null
LoadBegins(source) ==
  /\ loadingSource' = <<source>>
  /\ isLoading' = TRUE
  /\ errorMsg' = <<>>
  /\ graphData' = <<>>
  /\ Show(<<>>)
  /\ lockfileContent' = <<>>

\* A completion that leaves the loading state as it is.
LoadNeverEnds == UNCHANGED <<isLoading, loadingSource>>

\* finally { isLoading = false; loadingSource = null }
LoadEnds ==
  /\ isLoading' = FALSE
  /\ loadingSource' = <<>>

\* A load in flight: where it comes from, what it waits for, the name and
\* the text of the file, and what parseLockfile settles with for them, a
\* function of the two that is kept with the load from its start.
Load(source, stage, name, c) ==
  [source |-> source, stage |-> stage, name |-> name, content |-> c,
   outcome |-> ParseLockfileOutcome(c, name)]

\* lockfileContent = content and the call parseLockfile(content, name),
\* whose body runs to its end within the call; the handler then waits at
\* its await for the promise returned.
ParseCalled(load) ==
  /\ content' = load.content
  /\ lockfileType' = load.name
  /\ pc' = "settled"
  /\ returned' = load.outcome.returned
  /\ thrown' = load.outcome.thrown
  /\ lockfileContent' = <<load.content>>
  /\ pending' = [load EXCEPT !.stage = "parsing"]

\* The prefix of the message of a load that fails in its try block.
Prefix(load) ==
  IF load.source = "upload"
  THEN <<"Error parsing ">> \o load.name \o <<": ">>
  ELSE <<"Error fetching from GitHub: ">>

\* graphData = await parseLockfile(content, name) and the catch around it:
\* the graph on success, else the message with its prefix.
ParseInto(load, prefix) ==
  LET outcome == load.outcome
  IN IF outcome.thrown = <<>>
     THEN /\ graphData' = outcome.returned[1]
          /\ Show(outcome.returned[1])
          /\ errorMsg' = errorMsg
     ELSE /\ UNCHANGED <<graphData, controls, graph, dragging>>
          /\ errorMsg' = prefix \o outcome.thrown[1]

\* bind:value={githubRepoUrl}
SetGithubRepoUrl ==
  /\ ~isLoading
  /\ \E url \in RepoUrls : url # githubRepoUrl /\ githubRepoUrl' = url
  /\ UNCHANGED <<content, lockfileType, pc, returned, thrown, graphData,
                 controls, graph, lockfileContent, errorMsg, isLoading, selectedLockfile,
                 loadingSource, pending, showTableView, dragging>>

\* bind:value={lockfileType}
SetLockfileType ==
  /\ ~isLoading
  /\ \E type \in Filenames : type # selectedLockfile /\ selectedLockfile' = type
  /\ UNCHANGED <<content, lockfileType, pc, returned, thrown, graphData,
                 controls, graph, lockfileContent, errorMsg, isLoading, githubRepoUrl,
                 loadingSource, pending, showTableView, dragging>>

\* handleFileSelect up to reader.readAsText(file), for a file that was
\* picked; without one (`if (!file) return`) nothing changes.
HandleFileSelect ==
  /\ ~isLoading
  /\ \E file \in Files :
       pending' = Load("upload", "reading", file.name, file.content)
  /\ LoadBegins("upload")
  /\ UNCHANGED <<content, lockfileType, pc, returned, thrown, 
                 githubRepoUrl, selectedLockfile, showTableView>>

\* reader.onload up to its await.
ReaderOnload ==
  /\ pending # <<>>
  /\ pending.stage = "reading"
  /\ ParseCalled(pending)
  /\ UNCHANGED <<graphData, controls, graph, errorMsg, isLoading,
                 loadingSource, githubRepoUrl, selectedLockfile, showTableView, dragging>>

\* The handler goes on after its await: the assignment of graphData or
\* the catch, and the finally.
ParseSettles ==
  /\ pending # <<>>
  /\ pending.stage = "parsing"
  /\ ParseInto(pending, Prefix(pending))
  /\ LoadEnds
  /\ pending' = <<>>
  /\ UNCHANGED <<content, lockfileType, pc, returned, thrown, 
                 lockfileContent, githubRepoUrl, selectedLockfile, showTableView>>

\* reader.onerror
ReaderOnerror ==
  /\ pending # <<>>
  /\ pending.stage = "reading"
  /\ errorMsg' = <<"Error reading file.">>
  /\ LoadEnds
  /\ pending' = <<>>
  /\ UNCHANGED <<content, lockfileType, pc, returned, thrown, graphData,
                 controls, graph, lockfileContent, githubRepoUrl, selectedLockfile,
                 showTableView, dragging>>

\* catch (err) { errorMsg = `Error fetching from GitHub: ${err.message}` }
\* and the finally after it.
FetchFails(message) ==
  /\ errorMsg' = <<"Error fetching from GitHub: ">> \o message
  /\ LoadEnds
  /\ pending' = <<>>

\* fetchFromGitHub up to `await fetch(rawUrl)`.  The text at the address is
\* chosen here; it is read only when the response arrives.
FetchFromGitHub ==
  /\ ~isLoading
  /\ githubRepoUrl # <<>>
  /\ IF githubRepoUrl = <<>>
     THEN /\ errorMsg' = <<"Please enter a GitHub repository URL">>
          /\ UNCHANGED <<graphData, controls, graph, dragging, lockfileContent, isLoading,
                         loadingSource, pending>>
     ELSE LET parsed == ParseGithubUrl(githubRepoUrl, selectedLockfile)
          IN IF parsed.threw
             THEN /\ graphData' = <<>>
                  /\ Show(<<>>)
                  /\ lockfileContent' = <<>>
                  /\ FetchFails(parsed.message)
             ELSE /\ LoadBegins("github")
                  /\ \E c \in PageDocuments :
                       /\ parsed.path = YarnSelector => c.kind = "text"
                       /\ pending' = Load("github", "fetching", parsed.path, c)
  /\ UNCHANGED <<content, lockfileType, pc, returned, thrown, 
                 githubRepoUrl, selectedLockfile, showTableView>>

\* fetch(rawUrl) rejects: no connection.
FetchRejects ==
  /\ pending # <<>>
  /\ pending.stage = "fetching"
  /\ FetchFails(<<"Failed to fetch">>)
  /\ UNCHANGED <<content, lockfileType, pc, returned, thrown, graphData,
                 controls, graph, lockfileContent, githubRepoUrl, selectedLockfile,
                 showTableView, dragging>>

\* fetch(rawUrl) resolves: with a response that is not ok the function
\* throws, otherwise it waits for response.text().
FetchResolves ==
  /\ pending # <<>>
  /\ pending.stage = "fetching"
  /\ \E ok \in BOOLEAN :
       IF ok
       THEN /\ pending' = [pending EXCEPT !.stage = "text"]
            /\ UNCHANGED <<errorMsg, isLoading, loadingSource>>
       ELSE FetchFails(<<"Failed to fetch lockfile (404): Not Found">>)
  /\ UNCHANGED <<content, lockfileType, pc, returned, thrown, graphData,
                 controls, graph, lockfileContent, githubRepoUrl, selectedLockfile,
                 showTableView, dragging>>

\* response.text() resolves with the text of the file: the function goes
\* on up to its next await.
TextResolves ==
  /\ pending # <<>>
  /\ pending.stage = "text"
  /\ ParseCalled(pending)
  /\ UNCHANGED <<graphData, controls, graph, errorMsg, isLoading,
                 loadingSource, githubRepoUrl, selectedLockfile, showTableView, dragging>>

\* response.text() rejects.
TextRejects ==
  /\ pending # <<>>
  /\ pending.stage = "text"
  /\ FetchFails(<<"Failed to read the response">>)
  /\ UNCHANGED <<content, lockfileType, pc, returned, thrown, graphData,
                 controls, graph, lockfileContent, githubRepoUrl, selectedLockfile,
                 showTableView, dragging>>

\* A load in flight comes to its end.
LoadCompletes ==
  \/ ReaderOnload
  \/ ReaderOnerror
  \/ FetchRejects
  \/ FetchResolves
  \/ TextResolves
  \/ TextRejects
  \/ ParseSettles

PageNext ==
  \/ SetGithubRepoUrl
  \/ SetLockfileType
  \/ HandleFileSelect
  \/ FetchFromGitHub
  \/ ToggleView
  \/ LoadCompletes

PageSpec == PageInit /\ [][PageNext]_vars

\* The file reader and the network answer: a load in flight is not left
\* waiting forever.
PageFairSpec == PageSpec /\ WF_vars(LoadCompletes)

----------------------------------------------------------------------------
(* Properties of the result of a call.                                     *)

Settled == pc = "settled"

Succeeded == pc = "settled" /\ returned # <<>>

ReturnedNodes == returned[1].nodes

ReturnedLinks == returned[1].links

ReturnedIds == {ReturnedNodes[i].id : i \in 1..Len(ReturnedNodes)}

ByPackageLock == lockfileType = PackageLockSelector /\ content.kind = "json"

ByYarn == lockfileType = YarnSelector /\ content.kind = "text"

\* The ids the `packages` table of the document declares as dependencies.
DeclaredIds ==
  UNION {{MakeId(content.json.packages[i].dependencies[j].name,
                 content.json.packages[i].dependencies[j].version) :
            j \in 1..Len(content.json.packages[i].dependencies)}
         : i \in 1..Len(content.json.packages)}

\* C1: every link of a returned graph has its source id and its target id
\* among the ids of the returned nodes; a link to or from an id that never
\* became a node is not returned.
C1_NoDanglingLinks ==
  Succeeded =>
    \A i \in 1..Len(ReturnedLinks) :
      ReturnedLinks[i].source \in ReturnedIds /\ ReturnedLinks[i].target \in ReturnedIds

\* A graph was returned for a table that declares a dependency on an id
\* that is no node of the graph: the link the parser pushed for it is gone.
C1_Witness ==
  /\ Succeeded
  /\ ByPackageLock
  /\ \E id \in DeclaredIds : id \notin ReturnedIds

\* C2: the ids of the nodes of a returned graph are pairwise distinct.
C2_DistinctNodeIds ==
  Succeeded =>
    \A i, j \in 1..Len(ReturnedNodes) :
      i # j => ReturnedNodes[i].id # ReturnedNodes[j].id

\* A graph was returned for a text document in which two blocks gave the
\* same name and version: the root has two links to the one node.
C2_Witness ==
  /\ Succeeded
  /\ ByYarn
  /\ \E i, j \in 1..Len(ReturnedLinks) :
       /\ i < j
       /\ ReturnedLinks[i] = ReturnedLinks[j]
       /\ ReturnedLinks[i].source = ReturnedNodes[1].id

\* C3: the id of every returned node, the root included, is its name, an
\* "@" and its version.
C3_IdIsNameAtVersion ==
  Succeeded =>
    \A i \in 1..Len(ReturnedNodes) :
      ReturnedNodes[i].id = ReturnedNodes[i].name \o <<"@">> \o ReturnedNodes[i].version

\* A graph was returned that holds a node whose version the document did
\* not give, next to the root.
C3_Witness ==
  /\ Succeeded
  /\ \E i \in 2..Len(ReturnedNodes) :
       ReturnedNodes[i].version = <<"u", "n", "k", "n", "o", "w", "n">>

\* The id the root node must carry: the declared name and version of a JSON
\* document, root and 0.0.0 where they are absent; root@1.0.0 for the text
\* format.
ExpectedRootId ==
  IF lockfileType = YarnSelector
  THEN <<"r", "o", "o", "t", "@", "1", ".", "0", ".", "0">>
  ELSE (IF content.json.name = <<>> THEN <<"r", "o", "o", "t">> ELSE content.json.name)
       \o <<"@">> \o
       (IF content.json.version = <<>> THEN <<"0", ".", "0", ".", "0">> ELSE content.json.version)

\* C4: a returned graph holds the root node, and exactly one node carries
\* the root id.
C4_RootPresentOnce ==
  Succeeded =>
    Cardinality({i \in 1..Len(ReturnedNodes) : ReturnedNodes[i].id = ExpectedRootId}) = 1

\* A graph was returned for a JSON document that declares its root name
\* and holds a link whose target is the root id: a dependency of the
\* document resolved to the very id of the root.
C4_Witness ==
  /\ Succeeded
  /\ ByPackageLock
  /\ content.json.name # <<>>
  /\ \E i \in 1..Len(ReturnedLinks) : ReturnedLinks[i].target = ExpectedRootId

\* C5: in a returned graph a node carries the version-conflict flag exactly
\* when another returned node, the root included, has its name and another
\* version.
C5_ConflictFlagCorrect ==
  Succeeded =>
    \A i \in 1..Len(ReturnedNodes) :
      ReturnedNodes[i].hasMultipleVersions
        <=> \E j \in 1..Len(ReturnedNodes) :
              /\ ReturnedNodes[j].name = ReturnedNodes[i].name
              /\ ReturnedNodes[j].version # ReturnedNodes[i].version

\* C6: a JSON document whose `dependencies` and `packages` are both empty or
\* absent fails with the no-dependencies error of the JSON parser, and the
\* JSON parser never returns a graph of the root node alone.
C6_EmptyJsonFails ==
  /\ (Settled /\ ByPackageLock
        /\ content.json.dependencies = <<>> /\ content.json.packages = <<>>)
       => (returned = <<>> /\ thrown = <<WrapMsg(NoDepsPackageLockMsg)>>)
  /\ (Succeeded /\ ByPackageLock) => Len(ReturnedNodes) > 1

\* The nodes the text parser holds when it has processed every block.
YarnNodesAfterBlocks ==
  MapValues(ProcessYarnBlocks(Split(content.text, <<"\n", "\n">>), YarnInitialState).nodesMap)

\* C7: the text parser fails with its no-dependencies error exactly when the
\* node set holds only the pseudo-root after the last block, and a graph it
\* returns has a node that is not the root.
C7_YarnFailsIffRootOnly ==
  (Settled /\ ByYarn) =>
    /\ thrown = <<WrapMsg(NoDepsYarnMsg)>>
         <=> \A i \in 1..Len(YarnNodesAfterBlocks) :
               YarnNodesAfterBlocks[i].id = <<"r", "o", "o", "t", "@", "1", ".", "0", ".", "0">>
    /\ returned # <<>> =>
         \E i \in 1..Len(ReturnedNodes) :
           ReturnedNodes[i].id # <<"r", "o", "o", "t", "@", "1", ".", "0", ".", "0">>

\* The text parser failed on a document with a block that gives a name and
\* a version, those of the pseudo-root: the block added no node.
C7_Witness ==
  /\ Settled
  /\ ByYarn
  /\ thrown = <<WrapMsg(NoDepsYarnMsg)>>
  /\ Includes(content.text, HeaderLine(YarnRootName, Version1) \o <<"\n">> \o VersionLine(YarnRootVersion))

\* C8: with a second argument that ends in yarn.lock or package-lock.json
\* the call ends as the parser of that format ends on the content.  (The
\* source holds no parser for pnpm-lock.yaml to compare a call with.)
C8_FilenameSelectsParser ==
  Settled =>
    /\ (EndsWith(lockfileType, YarnFilename) /\ content.kind = "text")
         => [returned |-> returned, thrown |-> thrown]
              = ParseLockfileOutcome(content, YarnSelector)
    /\ EndsWith(lockfileType, PackageLockFilename)
         => [returned |-> returned, thrown |-> thrown]
              = ParseLockfileOutcome(content, PackageLockSelector)

\* C9: a call whose second argument is one of the three selectors or a
\* lockfile name never fails with the unsupported-format error.
C9_RecognizedNeverUnsupported ==
  (Settled /\ lockfileType \in Selectors \cup Filenames)
    => thrown # <<WrapMsg(UnsupportedMsg(lockfileType))>>

\* C10: a call ends with a graph or with a failure, never both and never
\* neither; when the parser raised an error (a JSON syntax error, an
\* unsupported selector, no dependencies found) the call ends with a failure
\* whose message contains the message of that error, and with no graph.
C10_FailureCarriesCause ==
  Settled =>
    /\ Len(returned) + Len(thrown) = 1
    /\ (lockfileType = PackageLockSelector /\ content.kind = "text")
         => (thrown # <<>> /\ Includes(thrown[1], SyntaxErrorMsg(content.text)))
    /\ lockfileType \notin {PackageLockSelector, YarnSelector}
         => (thrown # <<>> /\ Includes(thrown[1], UnsupportedMsg(lockfileType)))
    /\ Dispatch(content, lockfileType).threw
         => /\ returned = <<>>
            /\ thrown # <<>>
            /\ Includes(thrown[1], Dispatch(content, lockfileType).message)

\* A call with the JSON selector on a text that is not JSON has ended with
\* a failure.
C10_Witness ==
  /\ Settled
  /\ lockfileType = PackageLockSelector
  /\ content.kind = "text"
  /\ thrown # <<>>

\* The number of `node_modules` segments of a path of the table.
NodeModulesSegments(path) ==
  Cardinality({k \in 1..Len(Split(path, <<"/">>)) : Split(path, <<"/">>)[k] = NodeModules})

\* The kind an entry has by its own three flags.
OwnKind(entry) ==
  IF entry.dev THEN "dev" ELSE IF entry.peer THEN "peer"
  ELSE IF entry.optional THEN "optional" ELSE "prod"

\* The id of the node of an entry of the table: the last segment of its
\* path, an "@" and its version, unknown where it has none.
TableEntryId(entry) ==
  LET parts == Split(entry.path, <<"/">>)
  IN parts[Len(parts)] \o <<"@">> \o
     (IF entry.version = <<>> THEN <<"u", "n", "k", "n", "o", "w", "n">> ELSE entry.version)

\* C12: in a graph returned for a JSON document, every entry of the table
\* whose path has exactly one node_modules segment, scoped or unscoped, has
\* a link from the root node to its node that carries the kind of the entry;
\* and a table of the root entry and one unflagged node_modules/<name> entry
\* gives exactly two nodes and exactly one link, from the root, of kind prod.
C12_DirectChildRootLink ==
  (Succeeded /\ ByPackageLock) =>
    /\ \A i \in 1..Len(content.json.packages) :
         (content.json.packages[i].path # <<>>
            /\ NodeModulesSegments(content.json.packages[i].path) = 1)
           => \E k \in 1..Len(ReturnedLinks) :
                /\ ReturnedLinks[k].source = ExpectedRootId
                /\ ReturnedLinks[k].target = TableEntryId(content.json.packages[i])
                /\ ReturnedLinks[k].type = OwnKind(content.json.packages[i])
    /\ (/\ content.json.dependencies = <<>>
        /\ Len(content.json.packages) = 2
        /\ content.json.packages[1].path = <<>>
        /\ content.json.packages[2] = TableEntry(PathA, Version1, NoFlags, <<>>))
         => /\ Len(ReturnedNodes) = 2
            /\ ReturnedLinks = <<[source |-> ExpectedRootId,
                                  target |-> <<"a", "@", "1">>, type |-> "prod"]>>

\* The id of the node of an entry of the tree.
TreeEntryId(entry) ==
  entry.name \o <<"@">> \o
  (IF entry.version = <<>> THEN <<"u", "n", "k", "n", "o", "w", "n">> ELSE entry.version)

\* The pairs <<id of the parent entry, id of the entry>> of a tree, every
\* entry before its children and its children before its next sibling.
RECURSIVE TreeEdges(_, _)
TreeEdges(tree, parentId) ==
  IF tree = <<>>
  THEN <<>>
  ELSE <<<<parentId, TreeEntryId(tree[1])>>>>
       \o TreeEdges(tree[1].dependencies, TreeEntryId(tree[1]))
       \o TreeEdges(Tail(tree), parentId)

\* C13: a graph returned for a JSON document starts with one link per entry
\* of the `dependencies` tree, from the node of the parent entry (the root
\* for the top level) to the node of the entry, in the order of the walk;
\* a document with a tree and no table succeeds and returns exactly these
\* links, as many as the tree has entries.
C13_OneLinkPerTreeEntry ==
  (Settled /\ ByPackageLock /\ content.json.dependencies # <<>>) =>
    LET edges == TreeEdges(content.json.dependencies, ExpectedRootId)
    IN /\ Succeeded
       /\ Len(ReturnedLinks) >= Len(edges)
       /\ \A k \in 1..Len(edges) :
            <<ReturnedLinks[k].source, ReturnedLinks[k].target>> = edges[k]
       /\ content.json.packages = <<>> => Len(ReturnedLinks) = Len(edges)

\* A graph was returned for a document with a tree and no table in which an
\* entry is nested in another: its link starts at the node of that entry,
\* not at the root.
C13_Witness ==
  /\ Succeeded
  /\ ByPackageLock
  /\ content.json.packages = <<>>
  /\ \E i \in 1..Len(content.json.dependencies) :
       /\ content.json.dependencies[i].dependencies # <<>>
       /\ TreeEntryId(content.json.dependencies[i]) # ExpectedRootId
       /\ \E k \in 1..Len(ReturnedLinks) :
            /\ ReturnedLinks[k].source = TreeEntryId(content.json.dependencies[i])
            /\ ReturnedLinks[k].target =
                 TreeEntryId(content.json.dependencies[i].dependencies[1])

\* The blocks of the text document that give a package name and a version:
\* those for which the parser pushes the link from the pseudo-root.
YieldingBlocks ==
  LET packageBlocks == Split(content.text, <<"\n", "\n">>)
  IN {i \in 1..Len(packageBlocks) :
        ProcessYarnBlock(YarnInitialState, packageBlocks[i]).links # <<>>}

\* The links of the returned graph that start at the pseudo-root.
RootLinks == {k \in 1..Len(ReturnedLinks) : ReturnedLinks[k].source = ExpectedRootId}

\* C14: in a graph returned by the text parser every node but the root is
\* the target of a link from the pseudo-root root@1.0.0, and the links from
\* the root are as many as the blocks that gave a name and a version, one
\* per block whether its node was created or reused.
C14_OneRootLinkPerBlock ==
  (Succeeded /\ ByYarn) =>
    /\ \A i \in 1..Len(ReturnedNodes) :
         ReturnedNodes[i].id # ExpectedRootId
           => \E k \in RootLinks : ReturnedLinks[k].target = ReturnedNodes[i].id
    /\ Cardinality(RootLinks) = Cardinality(YieldingBlocks)

ByPnpm == lockfileType = PnpmSelector /\ content.kind = "yaml"

\* The id of the root node of a YAML document.
PnpmRootId == content.yaml.name \o <<"@">> \o content.yaml.version

\* The ids that a path of at most k links of the returned graph reaches
\* from the root.
RECURSIVE ReachWithin(_)
ReachWithin(k) ==
  IF k = 0
  THEN {PnpmRootId}
  ELSE ReachWithin(k - 1) \cup
       {ReturnedLinks[i].target :
          i \in {j \in 1..Len(ReturnedLinks) : ReturnedLinks[j].source \in ReachWithin(k - 1)}}

\* The least number of links on a path from the root to a node, the
\* placeholder for a node no path reaches.
ShortestPath(id) ==
  IF id \notin ReachWithin(Len(ReturnedNodes))
  THEN 999
  ELSE MinOf({k \in 0..Len(ReturnedNodes) : id \in ReachWithin(k)})

RECURSIVE TreeIds(_)
TreeIds(tree) ==
  IF tree = <<>>
  THEN {}
  ELSE {TreeEntryId(tree[1])} \cup TreeIds(tree[1].dependencies) \cup TreeIds(Tail(tree))

\* The kinds of the entries of a tree in the order of the walk: dev for an
\* entry that has the dev flag or lies below an entry that has it, else
\* the kind by the entry's own peer and optional flags.
RECURSIVE TreeKinds(_, _)
TreeKinds(tree, belowDev) ==
  IF tree = <<>>
  THEN <<>>
  ELSE <<IF belowDev \/ tree[1].dev THEN "dev"
         ELSE IF tree[1].peer THEN "peer"
         ELSE IF tree[1].optional THEN "optional"
         ELSE "prod">>
       \o TreeKinds(tree[1].dependencies, belowDev \/ tree[1].dev)
       \o TreeKinds(Tail(tree), belowDev)

\* C18: the link the walk of the `dependencies` tree adds for an entry
\* carries the kind dev when the entry or an entry above it has dev = true,
\* whatever its peer and optional flags; otherwise peer when the entry
\* itself has peer = true, otherwise optional when it has optional = true,
\* otherwise prod.  The peer and optional flags of the entries above it
\* play no part.
C18_TreeKindDevInherited ==
  (Succeeded /\ ByPackageLock) =>
    LET kinds == TreeKinds(content.json.dependencies, FALSE)
    IN \A k \in 1..Len(kinds) : ReturnedLinks[k].type = kinds[k]

\* A graph was returned for a tree in which an entry with the dev flag
\* holds an entry that has the peer flag and not the dev flag: the link of
\* the inner entry is of kind dev.
C18_Witness ==
  /\ Succeeded
  /\ ByPackageLock
  /\ \E i \in 1..Len(content.json.dependencies) :
       /\ content.json.dependencies[i].dev
       /\ content.json.dependencies[i].dependencies # <<>>
       /\ content.json.dependencies[i].dependencies[1].peer
       /\ ~content.json.dependencies[i].dependencies[1].dev
       /\ \E k \in 1..Len(ReturnedLinks) :
            /\ ReturnedLinks[k].source = TreeEntryId(content.json.dependencies[i])
            /\ ReturnedLinks[k].target =
                 TreeEntryId(content.json.dependencies[i].dependencies[1])
            /\ ReturnedLinks[k].type = "dev"

\* The entries of the table that are not the root entry.
PackageEntries ==
  {i \in 1..Len(content.json.packages) : content.json.packages[i].path # <<>>}

\* C19: in a graph returned for a JSON document without a tree, the node
\* of a table entry (the first entry of its id, which is not the root id)
\* has the kind of the entry's own flags, dev before peer before optional
\* before prod, and every link that starts at the node of a table entry has
\* the kind of the own flags of an entry of that id; the flags of the entry
\* under whose path an entry is nested do not enter.
C19_TableKindOwnFlags ==
  (Succeeded /\ ByPackageLock /\ content.json.dependencies = <<>>) =>
    /\ \A i \in PackageEntries :
         (/\ TableEntryId(content.json.packages[i]) # ExpectedRootId
          /\ \A j \in PackageEntries :
               j < i => TableEntryId(content.json.packages[j]) # TableEntryId(content.json.packages[i]))
           => \E n \in 1..Len(ReturnedNodes) :
                /\ ReturnedNodes[n].id = TableEntryId(content.json.packages[i])
                /\ ReturnedNodes[n].type = OwnKind(content.json.packages[i])
    /\ \A k \in 1..Len(ReturnedLinks) :
         ReturnedLinks[k].source # ExpectedRootId
           => \E i \in PackageEntries :
                /\ TableEntryId(content.json.packages[i]) = ReturnedLinks[k].source
                /\ OwnKind(content.json.packages[i]) = ReturnedLinks[k].type

\* A graph was returned for a table in which an entry without the dev flag
\* is nested under the path of an entry with the dev flag: its node is not
\* of kind dev.
C19_Witness ==
  /\ Succeeded
  /\ ByPackageLock
  /\ content.json.dependencies = <<>>
  /\ \E i, j \in PackageEntries :
       /\ content.json.packages[i].path = PathA
       /\ content.json.packages[i].dev
       /\ content.json.packages[j].path = PathNestedB
       /\ ~content.json.packages[j].dev
       /\ \E n \in 1..Len(ReturnedNodes) :
            /\ ReturnedNodes[n].id = TableEntryId(content.json.packages[j])
            /\ ReturnedNodes[n].type = "optional"

\* The id a declaration depName: declaredVersion of a table entry names.
DeclaredId(declaration) == declaration.name \o <<"@">> \o declaration.version

\* C20: in a graph returned for a JSON document, a dependency that an
\* entry of the table declares has a link from the node of the entry to the
\* node depName@declaredVersion, of the kind of the entry, when that id is
\* the id of a returned node, and no link ends at that id when it is not;
\* and every returned node is the root, an entry of the tree or an entry of
\* the table, none is made for a declaration.
C20_DeclaredLinkIffNodeExists ==
  (Succeeded /\ ByPackageLock) =>
    /\ \A i \in PackageEntries :
         \A d \in 1..Len(content.json.packages[i].dependencies) :
           LET target == DeclaredId(content.json.packages[i].dependencies[d])
           IN IF target \in ReturnedIds
              THEN \E k \in 1..Len(ReturnedLinks) :
                     /\ ReturnedLinks[k].source = TableEntryId(content.json.packages[i])
                     /\ ReturnedLinks[k].target = target
                     /\ ReturnedLinks[k].type = OwnKind(content.json.packages[i])
              ELSE \A k \in 1..Len(ReturnedLinks) : ReturnedLinks[k].target # target
    /\ ReturnedIds \subseteq
         {ExpectedRootId} \cup TreeIds(content.json.dependencies)
           \cup {TableEntryId(content.json.packages[i]) : i \in PackageEntries}

\* A graph was returned for a table in which an entry declares a
\* dependency on the id of an entry that comes after it, and another entry
\* declares a range that is the version of no node: the first link is in
\* the graph, the second is not.
C20_Witness ==
  /\ Succeeded
  /\ ByPackageLock
  /\ \E i, j \in PackageEntries :
       /\ i < j
       /\ content.json.packages[i].dependencies # <<>>
       /\ DeclaredId(content.json.packages[i].dependencies[1])
            = TableEntryId(content.json.packages[j])
       /\ \E k \in 1..Len(ReturnedLinks) :
            /\ ReturnedLinks[k].source = TableEntryId(content.json.packages[i])
            /\ ReturnedLinks[k].target = TableEntryId(content.json.packages[j])
       /\ content.json.packages[j].dependencies # <<>>
       /\ DeclaredId(content.json.packages[j].dependencies[1]) \notin ReturnedIds

\* The number of entries of the `dependencies` tree of the document.
TreeSize == Len(TreeKinds(content.json.dependencies, FALSE))

\* The links that the table loop pushes for one entry and that join two
\* returned nodes: one per declared dependency, one from the root for a
\* path of two parts.
RECURSIVE KeptDeclarations(_)
KeptDeclarations(declarations) ==
  IF declarations = <<>>
  THEN 0
  ELSE (IF DeclaredId(Head(declarations)) \in ReturnedIds THEN 1 ELSE 0)
       + KeptDeclarations(Tail(declarations))

RECURSIVE KeptTableLinks(_)
KeptTableLinks(packages) ==
  IF packages = <<>>
  THEN 0
  ELSE (IF Head(packages).path = <<>>
        THEN 0
        ELSE KeptDeclarations(Head(packages).dependencies)
             + (IF Len(Split(Head(packages).path, <<"/">>)) = 2 THEN 1 ELSE 0))
       + KeptTableLinks(Tail(packages))

\* C21 as stated: every link of a graph returned for a JSON document has
\* the kind of the entry of its target, be it a link of the tree, a link
\* from the root or a link of a declared dependency.
C21_LinkKindOfTarget ==
  (Succeeded /\ ByPackageLock) =>
    /\ \A k \in 1..TreeSize :
         ReturnedLinks[k].type = TreeKinds(content.json.dependencies, FALSE)[k]
    /\ \A k \in (TreeSize + 1)..Len(ReturnedLinks) :
         (\E i \in PackageEntries :
            TableEntryId(content.json.packages[i]) = ReturnedLinks[k].target)
           => \E i \in PackageEntries :
                /\ TableEntryId(content.json.packages[i]) = ReturnedLinks[k].target
                /\ OwnKind(content.json.packages[i]) = ReturnedLinks[k].type

\* C21, amended: a link of the tree and a link from the root to a table
\* entry have the kind of the entry of their target; a link of a declared
\* dependency has the kind of the entry that declares it, its source; and
\* no link between two returned nodes is dropped, parallel links included.
C21_LinkKindOfAddingEntry ==
  (Succeeded /\ ByPackageLock) =>
    /\ \A k \in 1..TreeSize :
         ReturnedLinks[k].type = TreeKinds(content.json.dependencies, FALSE)[k]
    /\ \A k \in (TreeSize + 1)..Len(ReturnedLinks) :
         \/ \E i \in PackageEntries :
              /\ ReturnedLinks[k].source = ExpectedRootId
              /\ Len(Split(content.json.packages[i].path, <<"/">>)) = 2
              /\ TableEntryId(content.json.packages[i]) = ReturnedLinks[k].target
              /\ OwnKind(content.json.packages[i]) = ReturnedLinks[k].type
         \/ \E i \in PackageEntries :
              /\ TableEntryId(content.json.packages[i]) = ReturnedLinks[k].source
              /\ \E d \in 1..Len(content.json.packages[i].dependencies) :
                   DeclaredId(content.json.packages[i].dependencies[d]) = ReturnedLinks[k].target
              /\ OwnKind(content.json.packages[i]) = ReturnedLinks[k].type
    /\ Len(ReturnedLinks) = TreeSize + KeptTableLinks(content.json.packages)

\* A graph was returned with a link of a declared dependency whose kind is
\* dev, the kind of the declaring entry, while the node of its target is
\* of kind prod.
C21_Witness ==
  /\ Succeeded
  /\ ByPackageLock
  /\ \E k \in (TreeSize + 1)..Len(ReturnedLinks) :
       /\ ReturnedLinks[k].source # ExpectedRootId
       /\ ReturnedLinks[k].type = "dev"
       /\ \E n \in 1..Len(ReturnedNodes) :
            /\ ReturnedNodes[n].id = ReturnedLinks[k].target
            /\ ReturnedNodes[n].type = "prod"

\* The blocks of the text document.
PackageBlocks == Split(content.text, <<"\n", "\n">>)

\* The id of the node of a block that gives a name and a version: the
\* target of the link from the pseudo-root that the block adds.
BlockNodeId(block) == ProcessYarnBlock(YarnInitialState, block).links[1].target

\* The ids known when block i is processed: the pseudo-root and the ids
\* of the blocks up to i, block i included.
KnownIds(i) ==
  {<<"r", "o", "o", "t", "@", "1", ".", "0", ".", "0">>}
    \cup {BlockNodeId(PackageBlocks[j]) : j \in {m \in YieldingBlocks : m <= i}}

\* The names of the dependency entries of a block: the text before the
\* quoted range on the lines after its `dependencies:` line.
DependencyNames(block) ==
  LET lines == Split(block, <<"\n">>)
      headers == {k \in 1..Len(lines) : Trim(lines[k]) = <<"d", "e", "p", "e", "n", "d", "e", "n", "c", "i", "e", "s", ":">>}
  IN IF headers = {}
     THEN <<>>
     ELSE [k \in 1..(Len(lines) - MinOf(headers)) |->
             Trim(DepMatchName(Trim(lines[MinOf(headers) + k])))]

\* The positions, among the returned nodes, of the nodes of a name that
\* are known when block i is processed.  The returned nodes are in the
\* order of their creation.
KnownNamed(i, depName) ==
  {n \in 1..Len(ReturnedNodes) :
     ReturnedNodes[n].name = depName /\ ReturnedNodes[n].id \in KnownIds(i)}

\* The number of dependency entries of the blocks up to i that name a
\* node known when their block is processed.
RECURSIVE ResolvedEntries(_)
ResolvedEntries(i) ==
  IF i = 0
  THEN 0
  ELSE ResolvedEntries(i - 1)
       + (IF i \in YieldingBlocks
          THEN Cardinality({d \in 1..Len(DependencyNames(PackageBlocks[i])) :
                              KnownNamed(i, DependencyNames(PackageBlocks[i])[d]) # {}})
          ELSE 0)

\* C22: in a graph returned by the text parser, a dependency entry of a
\* block has a link from the node of the block to the earliest created
\* node of its name among the nodes known when the block is processed; an
\* entry whose name no known node has gets no link, then or later: the
\* links are the links from the root and one link per resolved entry.
C22_DependencyResolvedAtBlock ==
  (Succeeded /\ ByYarn) =>
    /\ \A i \in YieldingBlocks :
         \A d \in 1..Len(DependencyNames(PackageBlocks[i])) :
           LET known == KnownNamed(i, DependencyNames(PackageBlocks[i])[d])
           IN known # {} =>
                \E k \in 1..Len(ReturnedLinks) :
                  /\ ReturnedLinks[k].source = BlockNodeId(PackageBlocks[i])
                  /\ ReturnedLinks[k].target = ReturnedNodes[MinOf(known)].id
    /\ Len(ReturnedLinks) = Cardinality(YieldingBlocks) + ResolvedEntries(Len(PackageBlocks))

\* A graph was returned for a text in which a block names a dependency
\* whose own block comes after it: the graph holds the node of the
\* dependency and no link to it but the one from the root.
C22_Witness ==
  /\ Succeeded
  /\ ByYarn
  /\ \E i \in YieldingBlocks :
       \E d \in 1..Len(DependencyNames(PackageBlocks[i])) :
         /\ KnownNamed(i, DependencyNames(PackageBlocks[i])[d]) = {}
         /\ \E n \in 1..Len(ReturnedNodes) :
              /\ ReturnedNodes[n].name = DependencyNames(PackageBlocks[i])[d]
              /\ \A k \in 1..Len(ReturnedLinks) :
                   ReturnedLinks[k].target = ReturnedNodes[n].id
                     => ReturnedLinks[k].source = ExpectedRootId

\* The conditions under which a block may contribute: its first line holds
\* a ":", the text of that line before its first "@" is not empty, and a
\* later line that begins with `version ` gives a version that is not
\* empty.
Qualifies(block) ==
  LET lines == Split(block, <<"\n">>)
      first == Trim(lines[1])
  IN /\ \E k \in 1..Len(lines[1]) : lines[1][k] = ":"
     /\ \E k \in 2..Len(first) : first[k] = "@" /\ \A m \in 1..(k - 1) : first[m] # "@"
     /\ \E i \in 2..Len(lines) :
          /\ StartsWith(Trim(lines[i]), <<"v", "e", "r", "s", "i", "o", "n", " ">>)
          /\ Trim(RemoveQuotes(SubstringFrom(Trim(lines[i]), 8))) # <<>>

\* C23: a call of the text parser ends as it ends on the document of the
\* blocks that qualify alone, and every returned node but the pseudo-root
\* is the node of a block that qualifies: a block without ":" on its first
\* line, without text before the first "@", or without a version adds no
\* node and no link.
C23_OtherBlocksChangeNothing ==
  (Settled /\ ByYarn) =>
    /\ [returned |-> returned, thrown |-> thrown]
         = ParseLockfileOutcome(YarnDocument(SelectSeq(PackageBlocks, Qualifies)), YarnSelector)
    /\ returned # <<>> =>
         \A n \in 1..Len(ReturnedNodes) :
           \/ ReturnedNodes[n].id = ExpectedRootId
           \/ \E i \in YieldingBlocks :
                /\ Qualifies(PackageBlocks[i])
                /\ ReturnedNodes[n].id = BlockNodeId(PackageBlocks[i])

\* A graph was returned for a text that holds, before a block that
\* qualifies, a block whose first line starts with "@": the block of a
\* scoped package.
C23_Witness ==
  /\ Succeeded
  /\ ByYarn
  /\ Len(PackageBlocks) = 2
  /\ PackageBlocks[1] # <<>>
  /\ PackageBlocks[1][1] = "@"
  /\ ~Qualifies(PackageBlocks[1])
  /\ Qualifies(PackageBlocks[2])
  /\ Len(ReturnedNodes) = 2

\* What the claim names of a node and of a link.
NodeCore(node) ==
  [id |-> node.id, name |-> node.name, version |-> node.version,
   type |-> node.type, hasMultipleVersions |-> node.hasMultipleVersions]

LinkCore(link) == [source |-> link.source, target |-> link.target, type |-> link.type]

\* C24: while the controls filter the graph and the graph component loads
\* and simulates what it is handed, the object parseLockfile returned keeps
\* its nodes and links: as many, in the same order, every node with its
\* id, name, version, kind and conflict flag and every link with its source
\* id, target id and kind.
C24_GraphDataUnchanged ==
  graphData # <<>> =>
    /\ [k \in 1..Len(graphData.nodes) |-> NodeCore(graphData.nodes[k])]
         = [k \in 1..Len(returned[1].nodes) |-> NodeCore(returned[1].nodes[k])]
    /\ [k \in 1..Len(graphData.links) |-> LinkCore(graphData.links[k])]
         = [k \in 1..Len(returned[1].links) |-> LinkCore(returned[1].links[k])]

\* The simulation runs on a filtered and limited part of the graph: a
\* search term is set, a kind is hidden, more nodes were asked for, the
\* links of the component hold node objects in place of ids, and a drag
\* has written the position of a node of the component.
C24_Witness ==
  /\ graphData # <<>>
  /\ controls # <<>>
  /\ graph # <<>>
  /\ graph.simulation
  /\ controls.searchTerm # <<>>
  /\ ~controls.showOptionalDeps
  /\ controls.nodeLimit > NodeLimit
  /\ Len(graph.nodes) < Len(graphData.nodes)
  /\ \E k \in 1..Len(graph.links) :
       graph.links[k].ref = 0 /\ graph.links[k].obj.source[1] = "[object]"
  /\ \E k \in 1..Len(graph.nodes) :
       graph.nodes[k].ref = 0 /\ "fx" \in DOMAIN graph.nodes[k].obj

\* The occurrences of node ids in the order a JSON document is processed:
\* the entries of the tree, every entry before its children and its
\* children before its next sibling, each with the kind the walk gives it.
RECURSIVE TreeOccurrences(_, _)
TreeOccurrences(tree, belowDev) ==
  IF tree = <<>>
  THEN <<>>
  ELSE <<[id |-> TreeEntryId(tree[1]),
          kind |-> TreeKinds(<<[tree[1] EXCEPT !.dependencies = <<>>]>>, belowDev)[1]]>>
       \o TreeOccurrences(tree[1].dependencies, belowDev \/ tree[1].dev)
       \o TreeOccurrences(Tail(tree), belowDev)

\* The occurrences of the table, in the order of its keys.
RECURSIVE TableOccurrences(_)
TableOccurrences(packages) ==
  IF packages = <<>>
  THEN <<>>
  ELSE (IF Head(packages).path = <<>>
        THEN <<>>
        ELSE <<[id |-> TableEntryId(Head(packages)), kind |-> OwnKind(Head(packages))]>>)
       \o TableOccurrences(Tail(packages))

Occurrences ==
  TreeOccurrences(content.json.dependencies, FALSE) \o TableOccurrences(content.json.packages)

\* C25: in a graph returned for a JSON document, every node but the root
\* has the kind of the first occurrence of its id, the tree walked depth
\* first before the table in the order of its keys, and the root node,
\* created before both, stays prod; a later occurrence of the id leaves
\* the kind of the node alone, while the link of every tree entry has the
\* kind of that occurrence.
C25_KindOfFirstOccurrence ==
  (Succeeded /\ ByPackageLock) =>
    /\ \A n \in 1..Len(ReturnedNodes) :
         IF ReturnedNodes[n].id = ExpectedRootId
         THEN ReturnedNodes[n].type = "prod"
         ELSE \E k \in 1..Len(Occurrences) :
                /\ Occurrences[k].id = ReturnedNodes[n].id
                /\ \A j \in 1..(k - 1) : Occurrences[j].id # ReturnedNodes[n].id
                /\ ReturnedNodes[n].type = Occurrences[k].kind
    /\ \A k \in 1..TreeSize :
         /\ ReturnedLinks[k].target = Occurrences[k].id
         /\ ReturnedLinks[k].type = Occurrences[k].kind

\* A graph was returned for a document in which an id occurs twice with
\* two kinds: its node has the kind of the first occurrence, and a link to
\* it has the kind of the second.
C25_Witness ==
  /\ Succeeded
  /\ ByPackageLock
  /\ \E j, k \in 1..Len(Occurrences) :
       /\ j < k
       /\ Occurrences[j].id = Occurrences[k].id
       /\ Occurrences[j].id # ExpectedRootId
       /\ Occurrences[j].kind # Occurrences[k].kind
       /\ \A i \in 1..(j - 1) : Occurrences[i].id # Occurrences[j].id
       /\ \E n \in 1..Len(ReturnedNodes) :
            /\ ReturnedNodes[n].id = Occurrences[j].id
            /\ ReturnedNodes[n].type = Occurrences[j].kind
       /\ \E l \in 1..Len(ReturnedLinks) :
            /\ ReturnedLinks[l].target = Occurrences[k].id
            /\ ReturnedLinks[l].type = Occurrences[k].kind

\* The orders of a list of n elements.
OrdersOf(n) == {f \in [1..n -> 1..n] : \A i, j \in 1..n : f[i] = f[j] => i = j}

\* How often a link is in a list of links.
CountOf(links, link) == Cardinality({k \in 1..Len(links) : links[k] = link})

\* The graph returned for the document with its table in another order.
ReorderedGraph(f) ==
  ParseLockfileOutcome(
    [content EXCEPT !.json.packages = [k \in 1..Len(content.json.packages) |->
                                         content.json.packages[f[k]]]],
    lockfileType).returned[1]

\* C26: a graph returned for a JSON document has, for every order of the
\* entries of its table, the same set of node ids and every link (source,
\* target and kind) as often as the graph returned for the reordered
\* document; and a declared dependency on the id of an entry further down
\* the table is a link of the graph.
C26_TableOrderIrrelevant ==
  (Succeeded /\ ByPackageLock) =>
    /\ \A f \in OrdersOf(Len(content.json.packages)) :
         LET other == ReorderedGraph(f)
         IN /\ {other.nodes[k].id : k \in 1..Len(other.nodes)} = ReturnedIds
            /\ Len(other.links) = Len(ReturnedLinks)
            /\ \A k \in 1..Len(ReturnedLinks) :
                 CountOf(other.links, ReturnedLinks[k]) = CountOf(ReturnedLinks, ReturnedLinks[k])
    /\ \A i, j \in PackageEntries :
         \A d \in 1..Len(content.json.packages[i].dependencies) :
           (i < j /\ DeclaredId(content.json.packages[i].dependencies[d])
                       = TableEntryId(content.json.packages[j]))
             => \E k \in 1..Len(ReturnedLinks) :
                  /\ ReturnedLinks[k].source = TableEntryId(content.json.packages[i])
                  /\ ReturnedLinks[k].target = TableEntryId(content.json.packages[j])

\* A graph was returned for a table whose first entry declares a
\* dependency on the id of its second entry, an id no earlier entry and no
\* tree entry gives: the link is in the graph.
C26_Witness ==
  /\ Succeeded
  /\ ByPackageLock
  /\ content.json.dependencies = <<>>
  /\ \E i, j \in PackageEntries :
       /\ i < j
       /\ \A h \in PackageEntries : h < j =>
            TableEntryId(content.json.packages[h]) # TableEntryId(content.json.packages[j])
       /\ TableEntryId(content.json.packages[j]) # ExpectedRootId
       /\ content.json.packages[i].dependencies # <<>>
       /\ DeclaredId(content.json.packages[i].dependencies[1])
            = TableEntryId(content.json.packages[j])
       /\ \E k \in 1..Len(ReturnedLinks) :
            /\ ReturnedLinks[k].source = TableEntryId(content.json.packages[i])
            /\ ReturnedLinks[k].target = TableEntryId(content.json.packages[j])

\* The last segment of a path of the table.
LastSegment(path) == Split(path, <<"/">>)[Len(Split(path, <<"/">>))]

\* The returned nodes that carry an id.
NodesWithId(id) == {n \in 1..Len(ReturnedNodes) : ReturnedNodes[n].id = id}

\* C27: in a graph returned for a JSON document, every entry of the table
\* has exactly one node of its id, whose name is the last segment of its
\* path unless it is the root node; two entries whose paths end in the same
\* segment, whatever scope or nesting comes before it, have one and the same
\* node when their versions are equal and two nodes that are both flagged
\* as a version conflict when their versions differ.
C27_NameIsLastSegment ==
  (Succeeded /\ ByPackageLock) =>
    /\ \A i \in PackageEntries :
         /\ Cardinality(NodesWithId(TableEntryId(content.json.packages[i]))) = 1
         /\ \A n \in NodesWithId(TableEntryId(content.json.packages[i])) :
              TableEntryId(content.json.packages[i]) # ExpectedRootId
                => ReturnedNodes[n].name = LastSegment(content.json.packages[i].path)
    /\ \A i, j \in PackageEntries :
         (/\ content.json.packages[i].path # content.json.packages[j].path
          /\ LastSegment(content.json.packages[i].path)
               = LastSegment(content.json.packages[j].path))
           => IF content.json.packages[i].version = content.json.packages[j].version
              THEN NodesWithId(TableEntryId(content.json.packages[i]))
                     = NodesWithId(TableEntryId(content.json.packages[j]))
              ELSE \A n \in NodesWithId(TableEntryId(content.json.packages[i]))
                              \cup NodesWithId(TableEntryId(content.json.packages[j])) :
                     ReturnedNodes[n].hasMultipleVersions

\* A graph was returned for a table that holds a package under its plain
\* path and, with another version, under a scope: the two nodes have the
\* same name and both are flagged.
C27_Witness ==
  /\ Succeeded
  /\ ByPackageLock
  /\ content.json.dependencies = <<>>
  /\ \E i, j \in PackageEntries :
       /\ content.json.packages[i].path = PathA
       /\ content.json.packages[j].path = PathScopedA
       /\ content.json.packages[i].version # content.json.packages[j].version
       /\ \E n, m \in 1..Len(ReturnedNodes) :
            /\ n # m
            /\ ReturnedNodes[n].id = TableEntryId(content.json.packages[i])
            /\ ReturnedNodes[m].id = TableEntryId(content.json.packages[j])
            /\ ReturnedNodes[n].name = NameA
            /\ ReturnedNodes[m].name = NameA
            /\ ReturnedNodes[n].hasMultipleVersions
            /\ ReturnedNodes[m].hasMultipleVersions

\* The number of returned links from the root node to the node of an id.
RootLinksTo(id) ==
  Cardinality({k \in 1..Len(ReturnedLinks) :
                 ReturnedLinks[k].source = ExpectedRootId /\ ReturnedLinks[k].target = id})

\* The node ids of the graph returned for the document with only its tree
\* and with only its table.
IdsOfTreeAlone ==
  LET alone == ParseLockfileOutcome([content EXCEPT !.json.packages = <<>>],
                                    lockfileType).returned[1]
  IN {alone.nodes[k].id : k \in 1..Len(alone.nodes)}

IdsOfTableAlone ==
  LET alone == ParseLockfileOutcome([content EXCEPT !.json.dependencies = <<>>],
                                    lockfileType).returned[1]
  IN {alone.nodes[k].id : k \in 1..Len(alone.nodes)}

\* A document with both a tree and a table.
BothShapes ==
  /\ Succeeded
  /\ ByPackageLock
  /\ content.json.dependencies # <<>>
  /\ PackageEntries # {}

\* C28: in a graph returned for a JSON document with a tree and a table,
\* an id other than the root id that a top-level entry of the tree and a
\* table entry directly below node_modules, scoped or unscoped, both give
\* has exactly one node and exactly two links from the root, one of each
\* shape; and the node ids of the graph are those of the graph of the tree
\* alone together with those of the graph of the table alone.
C28_OneNodeTwoRootLinks ==
  BothShapes =>
    /\ \A t \in 1..Len(content.json.dependencies) : \A i \in PackageEntries :
         (/\ NodeModulesSegments(content.json.packages[i].path) = 1
          /\ TreeEntryId(content.json.dependencies[t]) = TableEntryId(content.json.packages[i])
          /\ TableEntryId(content.json.packages[i]) # ExpectedRootId)
           => /\ Cardinality(NodesWithId(TableEntryId(content.json.packages[i]))) = 1
              /\ RootLinksTo(TableEntryId(content.json.packages[i])) = 2
    /\ ReturnedIds = IdsOfTreeAlone \cup IdsOfTableAlone

\* The same for the table entries whose path has two parts only, those
\* for which the table loop pushes a link from the root.
UnscopedOneNodeTwoRootLinks ==
  BothShapes =>
    /\ \A t \in 1..Len(content.json.dependencies) : \A i \in PackageEntries :
         (/\ Len(Split(content.json.packages[i].path, <<"/">>)) = 2
          /\ TreeEntryId(content.json.dependencies[t]) = TableEntryId(content.json.packages[i])
          /\ TableEntryId(content.json.packages[i]) # ExpectedRootId)
           => /\ Cardinality(NodesWithId(TableEntryId(content.json.packages[i]))) = 1
              /\ RootLinksTo(TableEntryId(content.json.packages[i])) = 2
    /\ ReturnedIds = IdsOfTreeAlone \cup IdsOfTableAlone

\* C30: on the page, after any sequence of uploads and fetches, the graph
\* and the error message are not both set.
C30_GraphOrError == ~(graphData # <<>> /\ errorMsg # <<>>)

\* A fetch from GitHub ended with a text that the parser rejected: the
\* message is set and no graph is.
C30_Witness ==
  /\ errorMsg # <<>>
  /\ graphData = <<>>
  /\ ~isLoading
  /\ returned = <<>>
  /\ thrown # <<>>
  /\ githubRepoUrl # <<>>
  /\ lockfileContent # <<>>
  /\ errorMsg[1] = "Error fetching from GitHub: "

\* C29: on the page, isLoading is true exactly while a load is in flight,
\* loadingSource is set exactly then, and every load in flight, an upload
\* or a fetch, comes to a state with isLoading = false and loadingSource =
\* null, whether the read, the fetch or the parse succeeds or fails.
C29_EveryLoadEnds ==
  /\ [](isLoading <=> pending # <<>>)
  /\ [](isLoading <=> loadingSource # <<>>)
  /\ (pending # <<>>) ~> (~isLoading /\ loadingSource = <<>>)

\* An upload has ended with a graph: nothing is in flight, and isLoading
\* and loadingSource are reset.
C29_Witness ==
  /\ pc = "settled"
  /\ graphData # <<>>
  /\ lockfileType \in {YarnSelector, PackageLockSelector}
  /\ githubRepoUrl = <<>>
  /\ pending = <<>>
  /\ ~isLoading
  /\ loadingSource = <<>>

====
